---------------------------- MODULE Spec2Model ----------------------------
(***************************************************************************)
(* Verification model of the Mark 3.1 trading bot                          *)
(* (WooiKhiang/Multi-Strategy-Trade-Bot-v2).                               *)
(*                                                                         *)
(* Three specifications share one set of variables:                        *)
(*   SpecSignal  the signal engine's operations (core/signal/processor.py, *)
(*               core/signal/cooldown.py) called in any order, with two    *)
(*               add_to_kiv callers whose statements interleave;           *)
(*   SpecLock    the single-instance file lock (core/utils/lock.py) used   *)
(*               by concurrent runs of scripts/main.py;                    *)
(*   SpecCycle   one bot running ticks (scripts/main.py run_cycle) over    *)
(*               the positions ledger, the broker and the signals table.   *)
(*                                                                         *)
(* Money is in cents, time in minutes since the start of the trading day.  *)
(* SQL tables are functions from primary key to row.                       *)
(***************************************************************************)
EXTENDS Integers, Sequences, FiniteSets, TLC

VARIABLES
    now,            \* wall clock (datetime.utcnow()), minutes
    signals,        \* table signals: signal_id -> row
    kiv,            \* per add_to_kiv caller: where it is inside add_to_kiv
    sigLog,         \* the last signal-engine call: its name, its result and the
                    \* list it returned (get_confirmed_signals)
    lockPath,       \* data/run.lock: the inode the path names, NoInode if absent
    flockHolder,    \* per inode: the process holding flock(LOCK_EX) on it
    mtime,          \* per inode: last modification time
    lockPid,        \* per inode: the pid written in the file, NoProc when empty
    proc,           \* per run of scripts/main.py: position, self.fp, start_time
    staleRemoved,   \* history: some acquire removed the lock file as stale
    positions,      \* table positions: ticket_id -> row
    trade_history,  \* table trade_history: rows in insertion order
    broker,         \* the Alpaca account: ticker -> position or NoPosition
    ignore_list,    \* table ignore_list: ticker -> row or NoIgnore
    sentinel,       \* Sentinel.kill_switch_engaged, .consecutive_failures
    hasStopLossColumn, \* whether table positions has a stop_loss column
    calendarHoliday, \* whether the monitor's session calendar lists today
                    \* among its holiday_dates
    pending_orders, \* Executor.pending_orders of the bot's executor: the
                    \* signals whose entry order it is watching
    open_orders,    \* the Alpaca account: the signals with an open BUY order
    tick            \* the run_cycle call in progress, or the last one; its
                    \* health_rows are the states of the rows it has inserted
                    \* into table health_state

sigVars == <<signals, kiv, sigLog>>
orderVars == <<pending_orders, open_orders>>
lockVars == <<lockPath, flockHolder, mtime, lockPid, proc, staleRemoved>>
cycleVars == <<positions, trade_history, broker, ignore_list, sentinel,
               hasStopLossColumn, calendarHoliday, orderVars, tick>>

-----------------------------------------------------------------------------
(* Bounds of the model *)

\* the clock stops advancing here
MaxNow == 395
\* rows the signals table may hold
MaxSignals == 2
\* inodes the lock file may occupy over time
MaxInodes == 3
\* rows trade_history may hold
MaxTrades == 1
\* add() calls counted in one ignore_list row
MaxRetries == 5
\* the clock of the single-caller runs stops advancing here
MaxSeedNow == 150
\* failed quick checks one Sentinel counts
MaxChecksFailed == 4

-----------------------------------------------------------------------------
(* Program constants *)

\* SignalProcessor.kiv_timeout_hours = 4, in minutes
KivTimeoutMin == 240
\* SignalProcessor.confirmed_timeout_hours = 2, in minutes
ConfirmedTimeoutMin == 120
\* strftime("%Y%m%d%H"): one bucket per hour
MinutesPerBucket == 60
\* bounce_threshold = rebound_bottom * 1.01, as a ratio of integers
BounceNum == 101
BounceDen == 100
\* CooldownManager durations, minutes
DefaultCooldownMin == 60
TakeProfitCooldownMin == 30
RejectedCooldownMin == 15

\* CrossPlatformLock stale_minutes
StaleMinutes == 10
\* 16:00 New York, minutes after the 09:30 open
MarketCloseMin == 390
\* LimitsManager daily_loss_limit = 500 and daily_profit_cap = 1000, cents
DailyLossLimit == 50000
DailyProfitCap == 100000
\* settings.TOTAL_CAPITAL and settings.MAX_PER_TRADE, cents
TotalCapital == 1000000
MaxPerTrade == 200000
\* ExitMonitor.force_close_minutes
ForceCloseMinutes == 5
\* Reconciler.price_tolerance_pct
PriceTolerancePct == 2
\* Sentinel thresholds
MaxDataErrorsPerDay == 10
MaxConsecutiveFailures == 3
\* IgnoreManager.backoff_map, minutes
BackoffMap == <<60, 240, 1440, 10080>>
\* SQL NULL in a numeric column
NULL == -1

Tickers == {"SPY", "NVDA"}
Strategies == {"RSI"}
\* the tickers the signal engine's operations are called with
SeedTickers == {"SPY"}
\* the concurrent callers of add_to_kiv (universe build, seeder)
Seeders == {"s1", "s2"}
\* scores ConfidenceScorer.calculate may return
ConfidenceSet == {65, 75}
\* rebound_bottom / go_in_price of a seeded signal, cents
SeedLevels == [rebound_bottom |-> 1000, go_in_price |-> 1020]
\* quotes handed to check_confirmation, cents
QuoteSet == {1005, 1010}
\* amounts by which the clock moves between statements
ClockSteps == {120}
SeedSteps == {30}
\* steps of the clock around the close, and where such a run starts
CloseSteps == {5}
StartTimes == {380}
\* concurrent runs of scripts/main.py
Procs == {"p1", "p2", "p3"}
\* the runs of the specification with fairness
LiveProcs == {"p1", "p2"}
NoProc == "none"
\* no file: the path is absent / self.fp is None
NoInode == 0
\* what the sentinel's probes may report in one check_health call
HealthInputs ==
    { [usage_pct |-> 0, errors_today |-> 0, regime |-> "BULL"],
      [usage_pct |-> 0, errors_today |-> 6, regime |-> "BULL"],
      [usage_pct |-> 0, errors_today |-> 0, regime |-> "CRASH"] }
\* symbols the Alpaca account may hold, and the holdings it may report, cents
HeldTickers == {"SPY"}
\* what the market quotes for a symbol when the stops are checked, cents
MarketQuotes == {48000, 50000}
\* exit_signal values strategies pass to signal_exit
ExitSignals == {"STOP_LOSS", "TAKE_PROFIT"}
\* trigger_time of a signal seeded before the run of cycles starts
SeedTimes == {360}
\* tier1_symbols of _scan_tier1
Tier1Symbols == {"SPY", "QQQ", "AAPL", "MSFT", "GOOGL"}
BrokerPositions ==
    { [quantity |-> 1, avg_entry_price |-> a] : a \in {49999, 50000} }
\* positions of an account that drifts from the ledger: a second share, an
\* average price 4% higher
DriftPositions ==
    { [quantity |-> q, avg_entry_price |-> a] : q \in {1, 2}, a \in {50000, 52000} }
NoPosition == [quantity |-> 0, avg_entry_price |-> 0]
\* order.filled_avg_price of a filled SELL, cents; 0 when Alpaca reports None
FillPrices == {0, 50000}
\* outcomes of client.submit_order for an entry
EntryOutcomes == {"FILLED", "PENDING", "FAILED"}
\* reasons stage_a_validate may give in a TIER 1 scan
ScanReasons == {"OK", "STALE_DATA", "NO_PRICE_DATA"}
NoIgnore == [reason_code |-> "", scope |-> "", ttl_utc |-> NULL,
             backoff_level |-> 0, retry_count |-> 0]
CooldownReasons == {"STOP_LOSS", "REJECTED"}

ActiveStatuses == {"KIV", "CONFIRMED"}
TerminalStatuses == {"EXECUTED", "EXPIRED", "REJECTED"}

-----------------------------------------------------------------------------
(* Signal engine: helpers *)

\* _generate_signal_id: ticker_strategy_YYYYMMDDHH
SignalId(t, s, time) ==
    [kind |-> "sig", ticker |-> t, strategy |-> s, stamp |-> time \div MinutesPerBucket]

\* the id set_cooldown gives the row it inserts: cooldown_<ticker>_<strategy>_<timestamp>
CooldownRowId(t, s, time) ==
    [kind |-> "cooldown", ticker |-> t, strategy |-> s, stamp |-> time]

RowsOf(t, s) == {id \in DOMAIN signals : signals[id].ticker = t /\ signals[id].strategy = s}

\* add_to_kiv without its cooldown query
NeverOnCooldown(t, s) == FALSE

\* CooldownManager.is_on_cooldown: some row of the pair has cooldown_until > now
IsOnCooldown(t, s) ==
    \E id \in RowsOf(t, s) :
        signals[id].cooldown_until # NULL /\ signals[id].cooldown_until > now

\* add_to_kiv without its duplicate check
NoDuplicateCheck(id, t, s) == FALSE

\* add_to_kiv's duplicate check:
\* signal_id = ? OR (ticker = ? AND strategy = ? AND status IN ('KIV','CONFIRMED'))
SignalExists(id, t, s) ==
    \/ id \in DOMAIN signals
    \/ \E r \in RowsOf(t, s) : signals[r].status \in ActiveStatuses

\* set_cooldown's duration for a reason (no explicit minutes)
CooldownDuration(reason) ==
    IF reason = "STOP_LOSS" THEN DefaultCooldownMin
    ELSE IF reason = "TAKE_PROFIT" THEN TakeProfitCooldownMin
    ELSE IF reason = "REJECTED" THEN RejectedCooldownMin
    ELSE DefaultCooldownMin

\* INSERT INTO signals: signal_id is the PRIMARY KEY, a duplicate raises
\* IntegrityError and the table is left as it was
InsertSignal(tbl, id, row) ==
    IF id \in DOMAIN tbl THEN tbl
    ELSE [x \in DOMAIN tbl \cup {id} |-> IF x = id THEN row ELSE tbl[x]]

\* UPDATE signals SET status = ? WHERE signal_id IN ids
SetStatus(tbl, ids, st) ==
    [x \in DOMAIN tbl |-> IF x \in ids THEN [tbl[x] EXCEPT !.status = st] ELSE tbl[x]]

\* check_confirmation's SELECT ... WHERE status = 'KIV' ORDER BY trigger_time DESC LIMIT 1
NewestKiv(t, s) ==
    LET k == {id \in RowsOf(t, s) : signals[id].status = "KIV"}
    IN {id \in k : \A o \in k : signals[o].trigger_time <= signals[id].trigger_time}

\* check_confirmation: age_hours > kiv_timeout_hours
KivExpired(row) == now - row.trigger_time > KivTimeoutMin

\* check_confirmation: rebound_bottom and rebound_bottom > 0 and
\* current_price >= rebound_bottom * 1.01
Bounced(row, price) ==
    /\ row.rebound_bottom # NULL
    /\ row.rebound_bottom > 0
    /\ price * BounceDen >= row.rebound_bottom * BounceNum

\* get_confirmed_signals / cleanup_expired: status = 'CONFIRMED' AND trigger_time < cutoff
ConfirmedStale(tbl) ==
    {id \in DOMAIN tbl : tbl[id].status = "CONFIRMED"
                         /\ tbl[id].trigger_time < now - ConfirmedTimeoutMin}

\* cleanup_expired: status = 'KIV' AND trigger_time < kiv_cutoff
KivStale(tbl) ==
    {id \in DOMAIN tbl : tbl[id].status = "KIV"
                         /\ tbl[id].trigger_time < now - KivTimeoutMin}

\* the orders in which ORDER BY confidence_score DESC may return the rows ids
ByConfidenceDesc(tbl, ids) ==
    {q \in [1..Cardinality(ids) -> ids] :
        /\ \A i, j \in 1..Cardinality(ids) : i # j => q[i] # q[j]
        /\ \A i, j \in 1..Cardinality(ids) :
              i < j => tbl[q[i]].confidence >= tbl[q[j]].confidence}

\* get_confirmed_signals' SELECT, run inside the transaction that expired the
\* stale rows: status = 'CONFIRMED' AND confidence_score >= min_confidence
ConfirmedVisible(tbl, minConf) ==
    {id \in DOMAIN tbl : /\ tbl[id].status = "CONFIRMED"
                         /\ id \notin ConfirmedStale(tbl)
                         /\ tbl[id].confidence # NULL
                         /\ tbl[id].confidence >= minConf}

IdleKiv == [pc |-> "idle"]

\* a call's record in sigLog: the operation, its result, and the signal ids
\* its return value carries
Called(op, res) == [op |-> op, res |-> res, list |-> <<>>]

-----------------------------------------------------------------------------
(* Signal engine: operations *)

\* add_to_kiv up to its INSERT (lines 59-94): the cooldown query, the signal id
\* from the clock, and the duplicate SELECT. The three statements read the
\* table and write nothing; no transaction spans the SELECT and the INSERT
AddToKivCheck(p, t, s) ==
    /\ kiv[p].pc = "idle"
    /\ IF IsOnCooldown(t, s)
       THEN /\ kiv' = kiv
            /\ sigLog' = Called("add_to_kiv", "REJECTED")
       ELSE IF SignalExists(SignalId(t, s, now), t, s)
       THEN /\ kiv' = kiv
            /\ sigLog' = Called("add_to_kiv", "EXISTS")
       ELSE /\ kiv' = [kiv EXCEPT ![p] = [pc |-> "insert", id |-> SignalId(t, s, now)]]
            /\ sigLog' = sigLog
    /\ UNCHANGED <<now, signals, lockVars, cycleVars>>

\* add_to_kiv, the INSERT and commit (lines 97-117); trigger_time is read from
\* the clock at the insert
AddToKivInsert(p, conf) ==
    /\ kiv[p].pc = "insert"
    /\ kiv[p].id \in DOMAIN signals \/ Cardinality(DOMAIN signals) < MaxSignals
    /\ signals' = InsertSignal(signals, kiv[p].id,
                     [ticker |-> kiv[p].id.ticker, strategy |-> kiv[p].id.strategy,
                      trigger_time |-> now, status |-> "KIV",
                      confidence |-> conf,
                      rebound_bottom |-> SeedLevels.rebound_bottom,
                      go_in_price |-> SeedLevels.go_in_price,
                      cooldown_until |-> NULL])
    /\ kiv' = [kiv EXCEPT ![p] = IdleKiv]
    /\ sigLog' = IF kiv[p].id \in DOMAIN signals
                 THEN Called("add_to_kiv", "IntegrityError")
                 ELSE [Called("add_to_kiv", "ADDED") EXCEPT !.list = <<kiv[p].id>>]
    /\ UNCHANGED <<now, lockVars, cycleVars>>

\* check_confirmation(ticker, strategy, current_price)
CheckConfirmation(t, s, price) ==
    /\ IF NewestKiv(t, s) = {}
       THEN /\ signals' = signals
            /\ sigLog' = Called("check_confirmation", "NO_KIV_SIGNAL")
       ELSE \E id \in NewestKiv(t, s) :
              IF KivExpired(signals[id])
              THEN /\ signals' = SetStatus(signals, {id}, "EXPIRED")
                   /\ sigLog' = Called("check_confirmation", "EXPIRED")
              ELSE IF Bounced(signals[id], price)
              THEN /\ signals' = SetStatus(signals, {id}, "CONFIRMED")
                   /\ sigLog' = Called("check_confirmation", "CONFIRMED")
              ELSE /\ signals' = signals
                   /\ sigLog' = Called("check_confirmation", "NOT_CONFIRMED")
    /\ UNCHANGED <<now, kiv, lockVars, cycleVars>>

\* get_confirmed_signals(min_confidence): the UPDATE that expires stale
\* CONFIRMED rows is never committed (conn.close() without conn.commit()), so
\* the table is left as it was; the SELECT runs inside that transaction
GetConfirmedSignals(minConf) ==
    /\ \E q \in ByConfidenceDesc(signals, ConfirmedVisible(signals, minConf)) :
          sigLog' = [op |-> "get_confirmed_signals", res |-> "OK", list |-> q]
    /\ UNCHANGED <<now, signals, kiv, lockVars, cycleVars>>

\* mark_executed(signal_id, ticket_id): UPDATE ... WHERE signal_id = ?
MarkExecuted(id) ==
    /\ id \in DOMAIN signals
    /\ signals' = SetStatus(signals, {id}, "EXECUTED")
    /\ sigLog' = Called("mark_executed", "OK")
    /\ UNCHANGED <<now, kiv, lockVars, cycleVars>>

\* reject_signal(signal_id, reason): UPDATE ... WHERE signal_id = ?
RejectSignal(id) ==
    /\ id \in DOMAIN signals
    /\ signals' = SetStatus(signals, {id}, "REJECTED")
    /\ sigLog' = Called("reject_signal", "OK")
    /\ UNCHANGED <<now, kiv, lockVars, cycleVars>>

\* cleanup_expired(): both UPDATEs, committed
CleanupExpired ==
    /\ signals' = SetStatus(SetStatus(signals, KivStale(signals), "EXPIRED"),
                            ConfirmedStale(SetStatus(signals, KivStale(signals), "EXPIRED")),
                            "EXPIRED")
    /\ sigLog' = Called("cleanup_expired", "OK")
    /\ UNCHANGED <<now, kiv, lockVars, cycleVars>>

\* set_cooldown(ticker, strategy, reason): UPDATE every row of the pair, and
\* INSERT a row with status COOLDOWN when the UPDATE matched none
SetCooldown(t, s, reason) ==
    /\ IF RowsOf(t, s) # {}
       THEN signals' = [x \in DOMAIN signals |->
                           IF x \in RowsOf(t, s)
                           THEN [signals[x] EXCEPT
                                    !.cooldown_until = now + CooldownDuration(reason)]
                           ELSE signals[x]]
       ELSE /\ Cardinality(DOMAIN signals) < MaxSignals
            /\ signals' = InsertSignal(signals, CooldownRowId(t, s, now),
                             [ticker |-> t, strategy |-> s, trigger_time |-> now,
                              status |-> "COOLDOWN", confidence |-> NULL,
                              rebound_bottom |-> NULL, go_in_price |-> NULL,
                              cooldown_until |-> now + CooldownDuration(reason)])
    /\ sigLog' = Called("set_cooldown", reason)
    /\ UNCHANGED <<now, kiv, lockVars, cycleVars>>

\* time passes between two statements
AdvanceClock(d) ==
    /\ now + d <= MaxNow
    /\ now' = now + d
    /\ UNCHANGED <<sigVars, lockVars, cycleVars>>

-----------------------------------------------------------------------------
(* The single-instance lock, core/utils/lock.py (Unix branch), as used by   *)
(* scripts/main.py main().  The path names an inode; flock locks belong to  *)
(* inodes, not to the path, and an open file keeps its inode when the path  *)
(* is unlinked.                                                             *)

\* market_open <= dt_ny <= market_close, 09:30 to 16:00
IsMarketHours(time) == time >= 0 /\ time <= MarketCloseMin

\* inodes no path and no open file refers to
FreeInodes == {i \in 1..MaxInodes : i # lockPath /\ \A p \in Procs : proc[p].fp # i}

FirstInode(set) == CHOOSE i \in set : \A j \in set : i <= j

\* _is_stale: the path exists and its file is older than stale_minutes
IsStale == lockPath # NoInode /\ now - mtime[lockPath] > StaleMinutes

NewProc == [pc |-> "main", fp |-> NoInode, start |-> NULL]

\* the processes between acquire returning True and release being called
InRunCycle == {p \in Procs : proc[p].pc = "cycle"}

\* main(): is_market_hours(), then acquire records start_time
MainStart(p) ==
    /\ proc[p].pc = "main"
    /\ proc' = [proc EXCEPT ![p] = IF IsMarketHours(now)
                                   THEN [pc |-> "loop", fp |-> NoInode, start |-> now]
                                   ELSE [@ EXCEPT !.pc = "done"]]
    /\ UNCHANGED <<now, sigVars, lockPath, flockHolder, mtime, lockPid, staleRemoved, cycleVars>>

\* while time.time() - start_time < timeout: the 30 seconds are over (expired)
\* for sure once the minute clock has moved, and not before the first pass
AcquireLoop(p, expired) ==
    /\ proc[p].pc = "loop"
    /\ now > proc[p].start => expired
    /\ (now = proc[p].start /\ proc[p].fp = NoInode) => ~expired
    /\ proc' = [proc EXCEPT ![p].pc = IF expired THEN "done" ELSE "open"]
    /\ UNCHANGED <<now, sigVars, lockPath, flockHolder, mtime, lockPid, staleRemoved, cycleVars>>

\* self.fp = open(self.lock_path, 'w'): creates the file if the path is
\* absent, truncates it otherwise; either way the file is modified now
AcquireOpen(p) ==
    /\ proc[p].pc = "open"
    /\ lockPath # NoInode \/ FreeInodes # {}
    /\ LET i == IF lockPath # NoInode THEN lockPath ELSE FirstInode(FreeInodes) IN
         /\ lockPath' = i
         /\ mtime' = [mtime EXCEPT ![i] = now]
         /\ lockPid' = [lockPid EXCEPT ![i] = NoProc]
         /\ proc' = [proc EXCEPT ![p].fp = i, ![p].pc = "flock"]
    /\ UNCHANGED <<now, sigVars, flockHolder, staleRemoved, cycleVars>>

\* fcntl.flock(LOCK_EX | LOCK_NB) on the opened file, then write the pid and
\* return True; EAGAIN when another open file holds the inode's lock
AcquireFlock(p) ==
    /\ proc[p].pc = "flock"
    /\ IF flockHolder[proc[p].fp] = NoProc
       THEN /\ flockHolder' = [flockHolder EXCEPT ![proc[p].fp] = p]
            /\ mtime' = [mtime EXCEPT ![proc[p].fp] = now]
            /\ lockPid' = [lockPid EXCEPT ![proc[p].fp] = p]
            /\ proc' = [proc EXCEPT ![p].pc = "cycle"]
       ELSE /\ proc' = [proc EXCEPT ![p].pc = "stale"]
            /\ UNCHANGED <<flockHolder, mtime, lockPid>>
    /\ UNCHANGED <<now, sigVars, lockPath, staleRemoved, cycleVars>>

\* except branch: if self._is_stale() remove the file and continue,
\* else time.sleep(1)
AcquireStaleCheck(p) ==
    /\ proc[p].pc = "stale"
    /\ proc' = [proc EXCEPT ![p].pc = IF IsStale THEN "remove" ELSE "loop"]
    /\ UNCHANGED <<now, sigVars, lockPath, flockHolder, mtime, lockPid, staleRemoved, cycleVars>>

\* _remove_stale_lock: os.remove(self.lock_path), errors swallowed
RemoveStaleLock(p) ==
    /\ proc[p].pc = "remove"
    /\ lockPath' = NoInode
    /\ staleRemoved' = (staleRemoved \/ lockPath # NoInode)
    /\ proc' = [proc EXCEPT ![p].pc = "loop"]
    /\ UNCHANGED <<now, sigVars, flockHolder, mtime, lockPid, cycleVars>>

\* bot.run_cycle() returns (or raises): the finally clause calls release
CycleReturns(p) ==
    /\ proc[p].pc = "cycle"
    /\ proc' = [proc EXCEPT ![p].pc = "unlock"]
    /\ UNCHANGED <<now, sigVars, lockPath, flockHolder, mtime, lockPid, staleRemoved, cycleVars>>

\* a release that forgets the file: self.fp = None without LOCK_UN or close
ReleaseKeepsFlock(p) ==
    /\ proc[p].pc = "unlock"
    /\ proc' = [proc EXCEPT ![p].fp = NoInode, ![p].pc = "unlink"]
    /\ UNCHANGED <<now, sigVars, lockPath, flockHolder, mtime, lockPid, staleRemoved, cycleVars>>

\* release: flock(LOCK_UN); self.fp.close(); self.fp = None. LOCK_UN drops the
\* lock of the caller's own open file, not one another open file holds
ReleaseUnlock(p) ==
    /\ proc[p].pc = "unlock"
    /\ flockHolder' = [flockHolder EXCEPT ![proc[p].fp] = IF @ = p THEN NoProc ELSE @]
    /\ proc' = [proc EXCEPT ![p].fp = NoInode, ![p].pc = "unlink"]
    /\ UNCHANGED <<now, sigVars, lockPath, mtime, lockPid, staleRemoved, cycleVars>>

\* release: if os.path.exists(self.lock_path): os.remove(self.lock_path)
ReleaseRemove(p) ==
    /\ proc[p].pc = "unlink"
    /\ lockPath' = NoInode
    /\ proc' = [proc EXCEPT ![p].pc = "done"]
    /\ UNCHANGED <<now, sigVars, flockHolder, mtime, lockPid, staleRemoved, cycleVars>>

\* __enter__: self.acquire(), whose result is dropped
WithEnter(p) ==
    /\ proc[p].pc = "main"
    /\ proc' = [proc EXCEPT ![p] = [pc |-> "loop", fp |-> NoInode, start |-> now]]
    /\ UNCHANGED <<now, sigVars, lockPath, flockHolder, mtime, lockPid, staleRemoved,
                   cycleVars>>

\* __exit__: self.release(), after an acquire that returned True ("cycle") or
\* False ("done"); release goes on when self.fp is set, and acquire leaves it
\* set to the file it opened last when it returns False
WithExit(p) ==
    /\ proc[p].pc \in {"cycle", "done"}
    /\ proc[p].fp # NoInode
    /\ proc' = [proc EXCEPT ![p].pc = "unlock"]
    /\ UNCHANGED <<now, sigVars, lockPath, flockHolder, mtime, lockPid, staleRemoved,
                   cycleVars>>

InitLock ==
    /\ lockPath = NoInode
    /\ flockHolder = [i \in 1..MaxInodes |-> NoProc]
    /\ mtime = [i \in 1..MaxInodes |-> 0]
    /\ lockPid = [i \in 1..MaxInodes |-> NoProc]
    /\ proc = [p \in Procs |-> NewProc]
    /\ staleRemoved = FALSE

-----------------------------------------------------------------------------
(* The trading cycle, scripts/main.py run_cycle, over the positions ledger,  *)
(* the Alpaca account, the risk gate and the sentinel.  The model starts     *)
(* after TradingBot.__init__ has built its components.                       *)

ActivePositionStatuses == {"OPEN", "CLOSING"}

\* rows of a ticker counted by the index ux_positions_one_active
ActivePositions(tbl, t) ==
    {id \in DOMAIN tbl : tbl[id].ticker = t /\ tbl[id].status \in ActivePositionStatuses}

\* INSERT INTO positions checked against the primary key alone
PrimaryKeyOnly(tbl, id, row) == id \notin DOMAIN tbl

\* INSERT INTO positions succeeds: the primary key is new and the partial
\* unique index on ticker WHERE status IN ('OPEN', 'CLOSING') is kept
CanInsertPosition(tbl, id, row) ==
    /\ id \notin DOMAIN tbl
    /\ row.status \in ActivePositionStatuses => ActivePositions(tbl, row.ticker) = {}

AddRow(tbl, id, row) == [x \in DOMAIN tbl \cup {id} |-> IF x = id THEN row ELSE tbl[x]]

DeleteRows(tbl, ids) == [x \in DOMAIN tbl \ ids |-> tbl[x]]

\* ticket id of a position added by the reconciler: RCL-{ticker}-{timestamp}
ReconciledTicket(t, time) == [kind |-> "RCL", ticker |-> t, stamp |-> time]

\* _get_local_positions: WHERE status = 'OPEN'
LocalOpen(tbl) == {id \in DOMAIN tbl : tbl[id].status = "OPEN"}

\* _get_alpaca_positions: the symbols the account holds; {} when the call fails
AlpacaPositions(up) == IF up THEN {t \in Tickers : broker[t] # NoPosition} ELSE {}

\* quick_check: the two position counts agree
QuickCheck(up) == Cardinality(LocalOpen(positions)) = Cardinality(AlpacaPositions(up))

ApiUsageStatus(pct) == IF pct > 90 THEN "CRITICAL" ELSE IF pct > 75 THEN "WARNING" ELSE "OK"

DataQualityStatus(errors) ==
    IF errors > MaxDataErrorsPerDay THEN "CRITICAL"
    ELSE IF errors * 10 > MaxDataErrorsPerDay * 7 THEN "WARNING" ELSE "OK"

MarketStatus(regime) ==
    IF regime = "CRASH" THEN "CRITICAL" ELSE IF regime = "BEAR" THEN "WARNING" ELSE "OK"

\* the statuses of the five dict-valued checks of check_health
HealthChecks(in, reconOk, kill) ==
    { ApiUsageStatus(in.usage_pct), DataQualityStatus(in.errors_today),
      IF reconOk THEN "OK" ELSE "CRITICAL", MarketStatus(in.regime),
      IF kill THEN "CRITICAL" ELSE "OK" }

\* _determine_health_state
DetermineHealthState(in, reconOk, kill, failures) ==
    IF "CRITICAL" \in HealthChecks(in, reconOk, kill) THEN "RED"
    ELSE IF failures >= MaxConsecutiveFailures THEN "RED"
    ELSE IF "WARNING" \in HealthChecks(in, reconOk, kill) THEN "YELLOW"
    ELSE IF in.usage_pct > 70 THEN "YELLOW"
    ELSE IF in.errors_today * 2 > MaxDataErrorsPerDay THEN "YELLOW"
    ELSE "GREEN"

\* consecutive_failures after _check_reconciliation
FailuresAfter(reconOk) ==
    IF reconOk THEN sentinel.consecutive_failures ELSE sentinel.consecutive_failures + 1

\* a check_health that also releases the kill switch
CheckClearsKillSwitch(reconOk) ==
    [sentinel EXCEPT !.consecutive_failures = FailuresAfter(reconOk),
                     !.kill_switch_engaged = FALSE]

\* the Sentinel after check_health: _check_reconciliation has counted a failed
\* quick_check, nothing else of the object is written
SentinelAfterCheck(reconOk) ==
    [sentinel EXCEPT !.consecutive_failures = FailuresAfter(reconOk)]

\* check_health: the state it returns
CheckHealth(in, up) ==
    DetermineHealthState(in, QuickCheck(up), sentinel.kill_switch_engaged,
                         FailuresAfter(QuickCheck(up)))

\* should_trade that looks at the kill switch only
KillSwitchOnly(kill, state) == ~kill

\* should_trade, given the state its own check_health returned
ShouldTrade(kill, state) == ~kill /\ state # "RED"

RECURSIVE SumOf(_, _)
\* SUM(...) of a column expression: val gives the expression's value per row
SumOf(val, ids) ==
    IF ids = {} THEN 0
    ELSE LET id == CHOOSE x \in ids : TRUE IN val[id] + SumOf(val, ids \ {id})

EntryValue(row) == row.entry_price * row.quantity
ExitValue(row) == row.exit_price * row.quantity
\* current_price * quantity, which SUM skips when current_price is NULL
CurrentValue(row) == IF row.current_price = NULL THEN 0 ELSE row.current_price * row.quantity

\* get_today_pnl: realized from trade_history, unrealized from the active rows
RealizedPnl(hist) ==
    SumOf([i \in DOMAIN hist |-> ExitValue(hist[i])], DOMAIN hist)
      - SumOf([i \in DOMAIN hist |-> EntryValue(hist[i])], DOMAIN hist)

UnrealizedPnl(tbl) ==
    LET act == {id \in DOMAIN tbl : tbl[id].status \in ActivePositionStatuses} IN
      SumOf([id \in act |-> CurrentValue(tbl[id])], act)
        - SumOf([id \in act |-> EntryValue(tbl[id])], act)

TotalPnl == RealizedPnl(trade_history) + UnrealizedPnl(positions)

\* is_loss_limit_hit with a strict comparison
StrictlyBelowLimit(total) == total < -DailyLossLimit

IsLossLimitHit(total) == total <= -DailyLossLimit
IsProfitCapHit(total) == total >= DailyProfitCap

\* LimitsManager.can_trade
LimitsCanTrade(total) ==
    IF IsLossLimitHit(total) THEN [ok |-> FALSE, reason |-> "DAILY_LOSS_LIMIT_HIT"]
    ELSE IF IsProfitCapHit(total) THEN [ok |-> FALSE, reason |-> "DAILY_PROFIT_CAP_HIT"]
    ELSE [ok |-> TRUE, reason |-> "OK"]

\* IgnoreManager.is_ignored: a row whose ttl_utc is still ahead
IsIgnored(t) == ignore_list[t] # NoIgnore /\ ignore_list[t].ttl_utc > now

\* RiskManager.can_trade_symbol: ignore list, then daily limits
CanTradeSymbol(t, s) ==
    IF IsIgnored(t) /\ ignore_list[t].scope \in {s, "ALL"}
    THEN [ok |-> FALSE, reason |-> "IGNORED"]
    ELSE LimitsCanTrade(TotalPnl)

Min(a, b) == IF a <= b THEN a ELSE b

\* PositionSizer.calculate_shares without atr: floor of
\* min(max_per_trade, 0.2 * available) * confidence / 100 / price
CalculateShares(price, conf, available) ==
    IF price > 0
    THEN (Min(Min(MaxPerTrade, (available * 2) \div 10) * conf, MaxPerTrade * 100))
            \div (100 * price)
    ELSE 0

\* RiskManager.approve_trade: can_trade_symbol again, then a non-zero size
ApproveTrade(t, s, price, conf) ==
    IF ~CanTradeSymbol(t, s).ok THEN [approved |-> FALSE, shares |-> 0]
    ELSE [approved |-> CalculateShares(price, conf, TotalCapital) # 0,
          shares |-> CalculateShares(price, conf, TotalCapital)]

\* minutes_until_market_close
MinutesUntilClose == MarketCloseMin - now

\* 'STALE' in reason or 'INVALID' in reason
IsPersistentIssue(reason) == reason \in {"STALE_DATA", "INVALID_PRICE"}

\* add without the cap of min(backoff_level + 1, 4)
IgnoreAddUncapped(row, reason, scope) ==
    IF row = NoIgnore
    THEN [reason_code |-> reason, scope |-> scope, ttl_utc |-> now + BackoffMap[1],
          backoff_level |-> 1, retry_count |-> 1]
    ELSE [row EXCEPT !.backoff_level = @ + 1,
                     !.retry_count = @ + 1,
                     !.ttl_utc = now + BackoffMap[Min(row.backoff_level + 1, 4)]]

\* IgnoreManager.add for a ticker with no row, or one more backoff level
IgnoreAdd(row, reason, scope) ==
    IF row = NoIgnore
    THEN [reason_code |-> reason, scope |-> scope, ttl_utc |-> now + BackoffMap[1],
          backoff_level |-> 1, retry_count |-> 1]
    ELSE [row EXCEPT !.backoff_level = Min(@ + 1, 4),
                     !.retry_count = @ + 1,
                     !.ttl_utc = now + BackoffMap[Min(row.backoff_level + 1, 4)]]

\* a market SELL either fails or fills at some average price
SellOutcomes ==
    {[status |-> "FAILED", fill_price |-> 0]}
      \cup {[status |-> "FILLED", fill_price |-> f] : f \in FillPrices}

\* execute_exit: a LIMIT exit without limit_price raises ValueError inside the
\* try block and comes back FAILED, unless the reason is STOP_LOSS, which
\* always goes out as a market order
ExecuteExit(orderType, reason, out) ==
    IF orderType = "MARKET" \/ reason = "STOP_LOSS" THEN out
    ELSE [status |-> "FAILED", fill_price |-> 0]

ExitReason(row) == IF row.exit_signal = "" THEN "STRATEGY" ELSE row.exit_signal

\* execute_exit: the order it hands to client.submit_order: a market order
\* for a MARKET exit or a STOP_LOSS reason, a limit order when a limit_price
\* was passed, none otherwise
SubmittedOrder(orderType, limitPrice, reason) ==
    IF orderType = "MARKET" \/ reason = "STOP_LOSS" THEN "MARKET"
    ELSE IF limitPrice = NULL THEN "NONE" ELSE "LIMIT"

\* _mark_position_closed: the trade_history row written for a position
ClosedTrade(id, row, price, reason) ==
    [ticker |-> row.ticker, entry_price |-> row.entry_price, exit_price |-> price,
     quantity |-> row.quantity, exit_reason |-> reason]

RECURSIVE HistoryAfter(_, _, _, _, _)
\* trade_history after the rows ids whose exit res[id] filled were closed
HistoryAfter(hist, tbl, ids, res, reason) ==
    IF ids = {} THEN hist
    ELSE LET id == CHOOSE x \in ids : TRUE IN
           HistoryAfter(IF res[id].status = "FILLED"
                        THEN Append(hist, ClosedTrade(id, tbl[id], res[id].fill_price,
                                                      reason[id]))
                        ELSE hist,
                        tbl, ids \ {id}, res, reason)

Filled(ids, res) == {id \in ids : res[id].status = "FILLED"}

NewTick ==
    [pc |-> "idle", kill |-> FALSE, should_trade |-> FALSE, verdict |-> "NONE",
     health |-> "NONE", recon |-> "NONE", trace |-> <<>>, candidates |-> <<>>,
     entries |-> <<>>, error |-> "", stop_due |-> {}, stop_sold |-> {},
     forced |-> {}, limit_sells |-> {}, listed |-> {}, health_rows |-> <<>>]

\* Sentinel.__init__: kill switch released, no failures counted
NewSentinel == [kill_switch_engaged |-> FALSE, consecutive_failures |-> 0]

\* main() lines 245-257 in market hours: a TradingBot with a fresh Sentinel;
\* engage tells whether engage_kill_switch is called on it before the cycle
BotStart(engage) ==
    /\ tick.pc = "idle"
    /\ IsMarketHours(now)
    /\ sentinel' = [NewSentinel EXCEPT !.kill_switch_engaged = engage]
    /\ tick' = [NewTick EXCEPT !.pc = "should_trade", !.kill = engage]
    /\ pending_orders' = {}
    /\ UNCHANGED <<now, sigVars, lockVars, positions, trade_history, broker,
                   ignore_list, hasStopLossColumn, calendarHoliday, open_orders>>

\* run_cycle lines 78-86: sentinel.should_trade(), which runs check_health;
\* the cycle returns at once when it says no
TickStart(in, up) ==
    /\ tick.pc = "should_trade"
    /\ sentinel' = SentinelAfterCheck(QuickCheck(up))
    /\ tick' = [tick EXCEPT
                  !.verdict = CheckHealth(in, up),
                  !.health_rows = Append(@, CheckHealth(in, up)),
                  !.should_trade = ShouldTrade(sentinel.kill_switch_engaged,
                                               CheckHealth(in, up)),
                  !.pc = IF ShouldTrade(sentinel.kill_switch_engaged, CheckHealth(in, up))
                         THEN "health" ELSE "done"]
    /\ UNCHANGED <<now, sigVars, lockVars, positions, trade_history, broker,
                   ignore_list, hasStopLossColumn, calendarHoliday, orderVars>>

\* main() line 263 and after: the cycle is over, the process exits and its
\* Sentinel is gone
BotExit ==
    /\ tick.pc = "done"
    /\ sentinel' = NewSentinel
    /\ tick' = NewTick
    /\ pending_orders' = {}
    /\ UNCHANGED <<now, sigVars, lockVars, positions, trade_history, broker,
                   ignore_list, hasStopLossColumn, calendarHoliday, open_orders>>

\* run_cycle line 89: health = self.sentinel.check_health()
TickCheckHealth(in, up) ==
    /\ tick.pc = "health"
    /\ sentinel' = SentinelAfterCheck(QuickCheck(up))
    /\ tick' = [tick EXCEPT !.health = CheckHealth(in, up), !.pc = "stop_loss",
                            !.health_rows = Append(@, CheckHealth(in, up))]
    /\ UNCHANGED <<now, sigVars, lockVars, positions, trade_history, broker,
                   ignore_list, hasStopLossColumn, calendarHoliday, orderVars>>

\* ExitMonitor._get_current_price: slippage has no _get_cached_price, the
\* AttributeError is caught and the answer is None whatever the market quotes
GetCurrentPrice(quote, t) == NULL

\* the OPEN rows whose loss at the market's quote has reached their stop_loss:
\* (price - entry_price) / entry_price <= -stop_loss, stop_loss in thousandths
StopDue(quote) ==
    {id \in LocalOpen(positions) :
        /\ positions[id].stop_loss # NULL
        /\ (quote[positions[id].ticker] - positions[id].entry_price) * 1000
              <= -(positions[id].stop_loss * positions[id].entry_price)}

\* the rows check_stop_losses sells: a price was found and the stop is hit
StopTriggered(quote) ==
    {id \in StopDue(quote) : GetCurrentPrice(quote, positions[id].ticker) # NULL}

\* monitor.check_stop_losses: the query names column stop_loss and raises
\* sqlite3.OperationalError out of run_cycle when the table has none;
\* otherwise a market SELL for every row whose stop is hit at the price found
CheckStopLosses(quote) ==
    /\ tick.pc = "stop_loss"
    /\ IF hasStopLossColumn
       THEN LET hit == StopTriggered(quote) IN
            /\ \E out \in [hit -> SellOutcomes] :
                  LET res == [id \in hit |-> ExecuteExit("MARKET", "STOP_LOSS", out[id])]
                      why == [id \in hit |-> "STOP_LOSS"]
                  IN /\ Len(trade_history) + Cardinality(Filled(hit, res)) <= MaxTrades
                     /\ trade_history' = HistoryAfter(trade_history, positions, hit, res, why)
                     /\ positions' = DeleteRows(positions, Filled(hit, res))
            /\ tick' = [tick EXCEPT !.pc = "strategy_exits",
                                    !.trace = Append(@, "stop_loss"),
                                    !.stop_due = StopDue(quote),
                                    !.stop_sold = hit]
       ELSE /\ tick' = [tick EXCEPT !.pc = "done", !.error = "OperationalError"]
            /\ UNCHANGED <<positions, trade_history>>
    /\ UNCHANGED <<now, sigVars, lockVars, broker, ignore_list, sentinel,
                   hasStopLossColumn, calendarHoliday, orderVars>>

\* run_cycle going from the exit checks straight to the scans
SkipReconcile == "scan"

\* run_cycle lines 94-98: what follows _check_exits
AfterExits == "reconcile"

\* the rows check_strategy_exits selects: WHERE status = 'CLOSING'
ClosingRows == {id \in DOMAIN positions : positions[id].status = "CLOSING"}

\* the rows check_pre_close sells when it has mins_to_close: the OPEN rows
\* when 0 < mins_to_close <= force_close_minutes
PreCloseRows(mins) ==
    IF mins > 0 /\ mins <= ForceCloseMinutes THEN LocalOpen(positions) ELSE {}

\* monitor.check_strategy_exits: execute_exit(order_type='LIMIT') without a
\* limit_price for every CLOSING row; limit_sells are the rows whose limit
\* order reached the broker
CheckStrategyExits(out) ==
    /\ tick.pc = "strategy_exits"
    /\ LET closing == ClosingRows
           res == [id \in closing |->
                     ExecuteExit("LIMIT", ExitReason(positions[id]), out[id])]
           why == [id \in closing |-> ExitReason(positions[id])]
       IN /\ DOMAIN out = closing
          /\ Len(trade_history) + Cardinality(Filled(closing, res)) <= MaxTrades
          /\ trade_history' = HistoryAfter(trade_history, positions, closing, res, why)
          /\ positions' = DeleteRows(positions, Filled(closing, res))
    /\ tick' = [tick EXCEPT !.pc = "pre_close",
                            !.trace = Append(@, "strategy_exits"),
                            !.limit_sells =
                               {id \in ClosingRows :
                                  SubmittedOrder("LIMIT", NULL,
                                                 ExitReason(positions[id])) = "LIMIT"}]
    /\ UNCHANGED <<now, sigVars, lockVars, broker, ignore_list, sentinel,
                   hasStopLossColumn, calendarHoliday, orderVars>>

\* the value minutes_until_market_close gives on a day the calendar lists as
\* a holiday: get_market_hours_bounds returns (None, None)
ClosedAllDay == 0

\* monitor.check_pre_close: it passes the naive datetime.utcnow() to
\* minutes_until_market_close. On a day the calendar lists as a holiday that
\* returns 0.0 and check_pre_close returns at once. On every other day the
\* aware close_utc minus the naive datetime raises TypeError, which nothing
\* between check_pre_close and main catches: no row is read, no order is
\* submitted and run_cycle ends
CheckPreClose ==
    /\ tick.pc = "pre_close"
    /\ IF calendarHoliday
       THEN tick' = [tick EXCEPT !.pc = AfterExits,
                                 !.trace = Append(@, "pre_close"),
                                 !.forced = PreCloseRows(ClosedAllDay)]
       ELSE tick' = [tick EXCEPT !.pc = "done", !.error = "TypeError"]
    /\ UNCHANGED <<now, sigVars, lockVars, positions, trade_history, broker,
                   ignore_list, sentinel, hasStopLossColumn, calendarHoliday, orderVars>>

\* reconcile_all: the buckets of the comparison of the local OPEN rows with
\* the account's positions
MissingInAlpaca(alpaca) ==
    {id \in LocalOpen(positions) : positions[id].ticker \notin alpaca}

MismatchQuantity(alpaca) ==
    {id \in LocalOpen(positions) :
        /\ positions[id].ticker \in alpaca
        /\ positions[id].quantity # broker[positions[id].ticker].quantity}

Abs(x) == IF x < 0 THEN -x ELSE x

MismatchPrice(alpaca) ==
    {id \in LocalOpen(positions) \ (MissingInAlpaca(alpaca) \cup MismatchQuantity(alpaca)) :
        Abs(positions[id].entry_price - broker[positions[id].ticker].avg_entry_price) * 100
          > PriceTolerancePct * positions[id].entry_price}

\* the listed tickers no local OPEN row names
MissingInLocal(alpaca) ==
    {t \in alpaca : \A id \in LocalOpen(positions) : positions[id].ticker # t}

\* the local rows found at Alpaca with the same quantity and a price within
\* the tolerance
Matched(alpaca) ==
    {id \in LocalOpen(positions) :
        /\ positions[id].ticker \in alpaca
        /\ positions[id].quantity = broker[positions[id].ticker].quantity
        /\ Abs(positions[id].entry_price - broker[positions[id].ticker].avg_entry_price) * 100
              <= PriceTolerancePct * positions[id].entry_price}

\* _determine_status asking about missing_in_local first
WarningBeforeCritical(alpaca) ==
    IF MissingInLocal(alpaca) # {} THEN "WARNING"
    ELSE IF MismatchQuantity(alpaca) # {} THEN "CRITICAL"
    ELSE IF MissingInAlpaca(alpaca) # {} THEN "CRITICAL"
    ELSE IF MismatchPrice(alpaca) # {} THEN "DEGRADED"
    ELSE "OK"

\* _determine_status
DetermineStatus(alpaca) ==
    IF MismatchQuantity(alpaca) # {} THEN "CRITICAL"
    ELSE IF MissingInAlpaca(alpaca) # {} THEN "CRITICAL"
    ELSE IF MissingInLocal(alpaca) # {} THEN "WARNING"
    ELSE IF MismatchPrice(alpaca) # {} THEN "DEGRADED"
    ELSE "OK"

\* the OPEN row _auto_reconcile inserts for an account position
ReconciledRow(t) ==
    [ticker |-> t, entry_price |-> broker[t].avg_entry_price,
     quantity |-> broker[t].quantity, current_price |-> NULL, status |-> "OPEN",
     strategy |-> "RECONCILED", exit_signal |-> "", stop_loss |-> NULL]

\* _auto_reconcile, first loop: entry_price of the price mismatches
PricesFixed(alpaca) ==
    [id \in DOMAIN positions |->
        IF id \in MismatchPrice(alpaca)
        THEN [positions[id] EXCEPT !.entry_price = broker[positions[id].ticker].avg_entry_price]
        ELSE positions[id]]

\* _auto_reconcile, second loop: every INSERT goes through
InsertsPass(alpaca) ==
    \A t \in MissingInLocal(alpaca) :
        CanInsertPosition(positions, ReconciledTicket(t, now), ReconciledRow(t))

\* an _auto_reconcile that heals a price by deleting the row and inserting the
\* broker's position under a new ticket
AutoReconciledByReinsert(alpaca) ==
    LET healed == {positions[id].ticker : id \in MismatchPrice(alpaca)}
        new == {ReconciledTicket(t, now) : t \in MissingInLocal(alpaca) \cup healed}
    IN [id \in (DOMAIN positions \ MismatchPrice(alpaca)) \cup new |->
           IF id \in new THEN ReconciledRow(id.ticker) ELSE positions[id]]

\* an _auto_reconcile that heals prices and adds no row
AutoReconciledPricesOnly(alpaca) == PricesFixed(alpaca)

\* positions after a committed _auto_reconcile
AutoReconciled(alpaca) ==
    LET new == {ReconciledTicket(t, now) : t \in MissingInLocal(alpaca)} IN
      [id \in DOMAIN positions \cup new |->
          IF id \in new THEN ReconciledRow(id.ticker) ELSE PricesFixed(alpaca)[id]]

\* run_cycle going on to the scans whatever reconcile_all reports
ReconNeverBlocks(status) == FALSE

\* run_cycle line 98: the statuses of reconcile_all that end the cycle
ReconBlocks(status) == status \in {"CRITICAL", "RED"}

\* run_cycle lines 96-106: reconcile_all (listed: the account listing it got
\* from _get_alpaca_positions); an IntegrityError of an INSERT leaves
\* the transaction uncommitted and ends the cycle; otherwise _log_reconciliation
\* inserts a health_state row with the status; CRITICAL ends the cycle;
\* a RED health state ends it after reconciliation
ReconcileAll(up) ==
    /\ tick.pc = "reconcile"
    /\ LET alpaca == AlpacaPositions(up)
           status == DetermineStatus(alpaca)
       IN IF status \in {"WARNING", "DEGRADED"} /\ ~InsertsPass(alpaca)
          THEN /\ tick' = [tick EXCEPT !.pc = "done", !.error = "IntegrityError"]
               /\ UNCHANGED positions
          ELSE /\ positions' = IF status \in {"WARNING", "DEGRADED"}
                               THEN AutoReconciled(alpaca) ELSE positions
               /\ tick' = [tick EXCEPT
                             !.recon = status,
                             !.listed = alpaca,
                             !.health_rows = Append(@, status),
                             !.trace = Append(@, "reconcile"),
                             !.pc = IF ReconBlocks(status) \/ tick.health = "RED"
                                    THEN "done" ELSE "scan"]
    /\ UNCHANGED <<now, sigVars, lockVars, trade_history, broker, ignore_list,
                   sentinel, hasStopLossColumn, calendarHoliday, orderVars>>

\* run_cycle lines 108-116: _scan_tier1 puts a symbol that fails Stage A with
\* a STALE or INVALID reason on the ignore list; _scan_tier2 only logs
ScanTiers(reason) ==
    /\ tick.pc = "scan"
    /\ ignore_list' =
         [t \in Tickers |->
            IF t \in Tier1Symbols /\ ~IsIgnored(t) /\ IsPersistentIssue(reason[t])
            THEN IgnoreAdd(ignore_list[t], reason[t], "ALL")
            ELSE ignore_list[t]]
    /\ tick' = [tick EXCEPT !.pc = "select", !.trace = Append(@, "scan")]
    /\ UNCHANGED <<now, sigVars, lockVars, positions, trade_history, broker,
                   sentinel, hasStopLossColumn, calendarHoliday, orderVars>>

\* the first n elements of a list
Take(q, n) == SubSeq(q, 1, Min(n, Len(q)))

\* _process_entries lines 191-206: the confirmed signals at the health state's
\* minimum confidence, best first, cut to the health state's maximum
SelectCandidates ==
    /\ tick.pc = "select"
    /\ \E q \in ByConfidenceDesc(signals,
                  ConfirmedVisible(signals, IF tick.health = "GREEN" THEN 60 ELSE 70)) :
         tick' = [tick EXCEPT
                    !.candidates = Take(q, IF tick.health = "GREEN" THEN 3 ELSE 1),
                    !.pc = IF q = <<>> THEN "done" ELSE "entries"]
    /\ UNCHANGED <<now, sigVars, lockVars, positions, trade_history, broker,
                   ignore_list, sentinel, hasStopLossColumn, calendarHoliday, orderVars>>

\* execute_entry lines 107-124: a limit order the broker did not fill at
\* submit is open at the broker and stored in self.pending_orders
PendingAfter(orders, id, result) ==
    IF result = "PENDING" THEN orders \cup {id} ELSE orders

\* what became of one candidate
Decision(id, result, reason, shares) ==
    [signal_id |-> id, ticker |-> signals[id].ticker, result |-> result,
     reason |-> reason, shares |-> shares, total_pnl |-> TotalPnl,
     ignored |-> IsIgnored(signals[id].ticker),
     in_position |-> ActivePositions(positions, signals[id].ticker) # {}]

\* _process_entries lines 208-243, one pass of the loop: can_trade_symbol,
\* else reject_signal; approve_trade; execute_entry; mark_executed when FILLED;
\* a PENDING order is only logged
ProcessEntry(outcome) ==
    /\ tick.pc = "entries"
    /\ LET id == Head(tick.candidates)
           sig == signals[id]
           gate == CanTradeSymbol(sig.ticker, sig.strategy)
           approval == ApproveTrade(sig.ticker, sig.strategy, sig.go_in_price, sig.confidence)
           decision ==
             IF ~gate.ok THEN Decision(id, "REJECTED", gate.reason, 0)
             ELSE IF ~approval.approved THEN Decision(id, "NOT_APPROVED", "Position size zero", 0)
             ELSE Decision(id, outcome, "OK", approval.shares)
       IN /\ signals' = IF decision.result = "REJECTED" THEN SetStatus(signals, {id}, "REJECTED")
                        ELSE IF decision.result = "FILLED" THEN SetStatus(signals, {id}, "EXECUTED")
                        ELSE signals
          /\ tick' = [tick EXCEPT
                        !.entries = Append(@, decision),
                        !.candidates = Tail(@),
                        !.trace = Append(@, "entry"),
                        !.pc = IF Tail(tick.candidates) = <<>> THEN "done" ELSE "entries"]
          /\ pending_orders' = PendingAfter(pending_orders, id, decision.result)
          /\ open_orders' = PendingAfter(open_orders, id, decision.result)
    /\ UNCHANGED <<now, kiv, sigLog, lockVars, positions, trade_history, broker,
                   ignore_list, sentinel, hasStopLossColumn, calendarHoliday>>

\* the Alpaca account changes: an order fills, a holding is sold or bought
\* outside the bot
BrokerChange(t, pos) ==
    /\ broker[t] # pos
    /\ broker' = [broker EXCEPT ![t] = pos]
    /\ UNCHANGED <<now, sigVars, lockVars, positions, trade_history, ignore_list,
                   sentinel, hasStopLossColumn, calendarHoliday, orderVars, tick>>

\* the Alpaca account fills or cancels an open BUY order: a fill leaves the
\* position pos for the signal's ticker, a cancel leaves the holding as it is
OrderCloses(id, pos) ==
    /\ id \in open_orders
    /\ id \in DOMAIN signals
    /\ open_orders' = open_orders \ {id}
    /\ broker' = [broker EXCEPT ![signals[id].ticker] = pos]
    /\ UNCHANGED <<now, sigVars, lockVars, positions, trade_history, ignore_list,
                   sentinel, hasStopLossColumn, calendarHoliday, pending_orders,
                   tick>>

\* monitor.signal_exit: UPDATE ... SET status = 'CLOSING' WHERE status = 'OPEN'
SignalExit(id, exitSignal) ==
    /\ id \in DOMAIN positions
    /\ positions[id].status = "OPEN"
    /\ positions' = [positions EXCEPT ![id].status = "CLOSING",
                                      ![id].exit_signal = exitSignal]
    /\ UNCHANGED <<now, sigVars, lockVars, trade_history, broker, ignore_list,
                   sentinel, hasStopLossColumn, calendarHoliday, orderVars, tick>>

\* time passes between two cycles
TickWait(d) == tick.pc = "idle" /\ AdvanceClock(d)

\* a CONFIRMED signal as add_to_kiv and check_confirmation leave it
ConfirmedSignal(t, s, time, conf) ==
    [ticker |-> t, strategy |-> s, trigger_time |-> time, status |-> "CONFIRMED",
     confidence |-> conf, rebound_bottom |-> SeedLevels.rebound_bottom,
     go_in_price |-> SeedLevels.go_in_price, cooldown_until |-> NULL]

\* the signals tables a run of cycles may start from
SeededTables ==
    {<<>>} \cup
    { InsertSignal(<<>>, SignalId(t, s, time), ConfirmedSignal(t, s, time, c)) :
        t \in SeedTickers, s \in Strategies, time \in SeedTimes, c \in ConfidenceSet }

\* the database init_db.py creates, the account empty, a fresh Sentinel
InitCycle ==
    /\ positions = <<>>
    /\ trade_history = <<>>
    /\ broker = [t \in Tickers |-> NoPosition]
    /\ ignore_list = [t \in Tickers |-> NoIgnore]
    /\ sentinel = NewSentinel
    /\ tick = NewTick

-----------------------------------------------------------------------------
vars == <<now, sigVars, lockVars, cycleVars>>

InitSignal ==
    /\ now = 0
    /\ InitLock
    /\ InitCycle
    /\ hasStopLossColumn = FALSE
    /\ calendarHoliday = FALSE
    /\ pending_orders = {}
    /\ open_orders = {}
    /\ signals = <<>>
    /\ kiv = [p \in Seeders |-> IdleKiv]
    /\ sigLog = Called("init", "OK")

NextSignal ==
    \/ \E p \in Seeders, t \in SeedTickers, s \in Strategies : AddToKivCheck(p, t, s)
    \/ \E p \in Seeders, c \in ConfidenceSet : AddToKivInsert(p, c)
    \/ \E t \in SeedTickers, s \in Strategies, q \in QuoteSet : CheckConfirmation(t, s, q)
    \/ \E m \in {60, 70} : GetConfirmedSignals(m)
    \/ \E id \in DOMAIN signals : MarkExecuted(id)
    \/ \E id \in DOMAIN signals : RejectSignal(id)
    \/ CleanupExpired
    \/ \E t \in SeedTickers, s \in Strategies, r \in CooldownReasons : SetCooldown(t, s, r)
    \/ \E d \in ClockSteps : AdvanceClock(d)

SpecSignal == InitSignal /\ [][NextSignal]_vars

InitLockSpec ==
    /\ now \in StartTimes
    /\ signals = <<>>
    /\ kiv = [p \in Seeders |-> IdleKiv]
    /\ sigLog = Called("init", "OK")
    /\ InitLock
    /\ InitCycle
    /\ hasStopLossColumn = FALSE
    /\ calendarHoliday = FALSE
    /\ pending_orders = {}
    /\ open_orders = {}

NextLock ==
    \/ \E p \in Procs : MainStart(p)
    \/ \E p \in Procs, expired \in BOOLEAN : AcquireLoop(p, expired)
    \/ \E p \in Procs : AcquireOpen(p)
    \/ \E p \in Procs : AcquireFlock(p)
    \/ \E p \in Procs : AcquireStaleCheck(p)
    \/ \E p \in Procs : RemoveStaleLock(p)
    \/ \E p \in Procs : CycleReturns(p)
    \/ \E p \in Procs : ReleaseUnlock(p)
    \/ \E p \in Procs : ReleaseRemove(p)
    \/ \E d \in CloseSteps : AdvanceClock(d)

SpecLock == InitLockSpec /\ [][NextLock]_vars

\* what one process does between is_market_hours() and its exit
LockSteps(p) ==
    \/ \E expired \in BOOLEAN : AcquireLoop(p, expired)
    \/ AcquireOpen(p) \/ AcquireFlock(p) \/ AcquireStaleCheck(p)
    \/ RemoveStaleLock(p) \/ CycleReturns(p) \/ ReleaseUnlock(p) \/ ReleaseRemove(p)

\* the processes run, and a process that keeps coming back to the head of
\* the loop finds its 30 seconds over at some pass: time.time() goes on
LockFairness ==
    \A p \in LiveProcs : WF_vars(LockSteps(p)) /\ SF_vars(AcquireLoop(p, TRUE))

\* two runs of scripts/main.py started at any time of the last minutes
NextLockLive ==
    \/ \E p \in LiveProcs : MainStart(p)
    \/ \E p \in LiveProcs : LockSteps(p)
    \/ \E d \in CloseSteps : AdvanceClock(d)

SpecLockLive == InitLockSpec /\ [][NextLockLive]_vars /\ LockFairness

\* runs that take the lock as a context manager: with CrossPlatformLock()
NextWith ==
    \/ \E p \in Procs : WithEnter(p)
    \/ \E p \in Procs, expired \in BOOLEAN : AcquireLoop(p, expired)
    \/ \E p \in Procs : AcquireOpen(p)
    \/ \E p \in Procs : AcquireFlock(p)
    \/ \E p \in Procs : AcquireStaleCheck(p)
    \/ \E p \in Procs : RemoveStaleLock(p)
    \/ \E p \in Procs : WithExit(p)
    \/ \E p \in Procs : ReleaseUnlock(p)
    \/ \E p \in Procs : ReleaseRemove(p)
    \/ \E d \in CloseSteps : AdvanceClock(d)

SpecWith == InitLockSpec /\ [][NextWith]_vars

\* a database file made by init_db.py has no stop_loss column in positions;
\* CREATE TABLE IF NOT EXISTS keeps an older file's table, which may have one
InitCycleSpec ==
    /\ now \in StartTimes
    /\ signals \in SeededTables
    /\ kiv = [p \in Seeders |-> IdleKiv]
    /\ sigLog = Called("init", "OK")
    /\ InitLock
    /\ InitCycle
    /\ hasStopLossColumn \in BOOLEAN
    /\ calendarHoliday \in BOOLEAN
    /\ pending_orders = {}
    /\ open_orders = {}

NextCycle ==
    \/ \E engage \in BOOLEAN : BotStart(engage)
    \/ \E in \in HealthInputs, up \in BOOLEAN : TickStart(in, up)
    \/ \E in \in HealthInputs, up \in BOOLEAN : TickCheckHealth(in, up)
    \/ \E quote \in [Tickers -> MarketQuotes] : CheckStopLosses(quote)
    \/ \E out \in [ClosingRows -> SellOutcomes] : CheckStrategyExits(out)
    \/ CheckPreClose
    \/ \E up \in BOOLEAN : ReconcileAll(up)
    \/ \E reason \in [Tickers -> ScanReasons] : ScanTiers(reason)
    \/ SelectCandidates
    \/ \E outcome \in EntryOutcomes : ProcessEntry(outcome)
    \/ \E t \in HeldTickers, pos \in BrokerPositions \cup {NoPosition} : BrokerChange(t, pos)
    \/ \E id \in DOMAIN positions, x \in ExitSignals : SignalExit(id, x)
    \/ BotExit
    \/ \E d \in CloseSteps : TickWait(d)

SpecCycle == InitCycleSpec /\ [][NextCycle]_vars

-----------------------------------------------------------------------------
(* Two cycles in a row over a world that stays as it is: the account is      *)
(* reachable and changes only between cycles, prices pass Stage A, health    *)
(* is nominal, a LIMIT BUY rests unfilled, no exit is due.  A cycle that     *)
(* starts in the state and world the previous one ended in is a rerun.       *)

\* what a cycle can read or write, and the world around it
World ==
    [now |-> now, broker |-> broker, signals |-> signals, positions |-> positions,
     trade_history |-> trade_history, ignore_list |-> ignore_list]

\* the tick record with the memory of the previous cycle's end
RerunTick == [rerun |-> FALSE, snap |-> <<>>] @@ NewTick

\* main() starting a cycle; it is a rerun when nothing changed since the
\* previous cycle ended
RerunStart ==
    /\ tick.pc = "idle"
    /\ IsMarketHours(now)
    /\ sentinel' = NewSentinel
    /\ tick' = [tick EXCEPT !.pc = "should_trade",
                            !.rerun = (tick.snap = <<World>>)]
    /\ pending_orders' = {}
    /\ UNCHANGED <<now, sigVars, lockVars, positions, trade_history, broker,
                   ignore_list, hasStopLossColumn, calendarHoliday, open_orders>>

\* main() ending a cycle: the process exits
RerunExit ==
    /\ tick.pc = "done"
    /\ sentinel' = NewSentinel
    /\ tick' = [RerunTick EXCEPT !.snap = <<World>>]
    /\ pending_orders' = {}
    /\ UNCHANGED <<now, sigVars, lockVars, positions, trade_history, broker,
                   ignore_list, hasStopLossColumn, calendarHoliday, open_orders>>

\* the probes of a quiet day
NominalHealth == [usage_pct |-> 0, errors_today |-> 0, regime |-> "BULL"]

InitRerun ==
    /\ now \in StartTimes
    /\ signals \in SeededTables
    /\ kiv = [p \in Seeders |-> IdleKiv]
    /\ sigLog = Called("init", "OK")
    /\ InitLock
    /\ positions = <<>>
    /\ trade_history = <<>>
    /\ broker = [t \in Tickers |-> NoPosition]
    /\ ignore_list = [t \in Tickers |-> NoIgnore]
    /\ sentinel = NewSentinel
    /\ tick = RerunTick
    /\ hasStopLossColumn \in BOOLEAN
    /\ calendarHoliday \in BOOLEAN
    /\ pending_orders = {}
    /\ open_orders = {}

NextRerun ==
    \/ RerunStart
    \/ TickStart(NominalHealth, TRUE)
    \/ TickCheckHealth(NominalHealth, TRUE)
    \/ \E quote \in [Tickers -> MarketQuotes] : CheckStopLosses(quote)
    \/ \E out \in [ClosingRows -> SellOutcomes] : CheckStrategyExits(out)
    \/ CheckPreClose
    \/ ReconcileAll(TRUE)
    \/ ScanTiers([t \in Tickers |-> "OK"])
    \/ SelectCandidates
    \/ ProcessEntry("PENDING")
    \/ \E t \in HeldTickers, pos \in BrokerPositions \cup {NoPosition} :
          tick.pc = "idle" /\ BrokerChange(t, pos)
    \/ RerunExit

SpecRerun == InitRerun /\ [][NextRerun]_vars

-----------------------------------------------------------------------------
(* Cycles over a ledger that holds an OPEN position with a stop_loss, the    *)
(* row the monitor's query is written for (ticket_id, ticker, entry_price,   *)
(* quantity, stop_loss, strategy), and an account that holds the shares      *)

SeededTicket == [kind |-> "TKT", ticker |-> "SPY", stamp |-> 0]

\* 1 share of SPY bought at 500.00 for strategy RSI, stop_loss 0.039
SeededPosition ==
    [ticker |-> "SPY", entry_price |-> 50000, quantity |-> 1, current_price |-> NULL,
     status |-> "OPEN", strategy |-> "RSI", exit_signal |-> "", stop_loss |-> 39]

InitStop ==
    /\ now \in StartTimes
    /\ signals = <<>>
    /\ kiv = [p \in Seeders |-> IdleKiv]
    /\ sigLog = Called("init", "OK")
    /\ InitLock
    /\ positions = (SeededTicket :> SeededPosition)
    /\ trade_history = <<>>
    /\ broker = [t \in Tickers |->
                   IF t = SeededPosition.ticker
                   THEN [quantity |-> SeededPosition.quantity,
                         avg_entry_price |-> SeededPosition.entry_price]
                   ELSE NoPosition]
    /\ ignore_list = [t \in Tickers |-> NoIgnore]
    /\ sentinel = NewSentinel
    /\ tick = NewTick
    /\ hasStopLossColumn = TRUE
    /\ calendarHoliday \in BOOLEAN
    /\ pending_orders = {}
    /\ open_orders = {}

NextStop ==
    \/ \E engage \in BOOLEAN : BotStart(engage)
    \/ \E in \in HealthInputs, up \in BOOLEAN : TickStart(in, up)
    \/ \E in \in HealthInputs, up \in BOOLEAN : TickCheckHealth(in, up)
    \/ \E quote \in [Tickers -> MarketQuotes] : CheckStopLosses(quote)
    \/ \E out \in [ClosingRows -> SellOutcomes] : CheckStrategyExits(out)
    \/ CheckPreClose
    \/ \E up \in BOOLEAN : ReconcileAll(up)
    \/ \E reason \in [Tickers -> ScanReasons] : ScanTiers(reason)
    \/ SelectCandidates
    \/ \E t \in HeldTickers, pos \in BrokerPositions \cup {NoPosition} : BrokerChange(t, pos)
    \/ \E id \in DOMAIN positions, x \in ExitSignals : SignalExit(id, x)
    \/ BotExit
    \/ \E d \in CloseSteps : TickWait(d)

SpecStop == InitStop /\ [][NextStop]_vars

-----------------------------------------------------------------------------
(* Cycles in nominal health over an account whose holdings of both tickers   *)
(* change in quantity and average price, between two cycles and between the  *)
(* exit checks and the reconciliation of a cycle                             *)

InitDrift ==
    /\ now \in StartTimes
    /\ signals \in SeededTables
    /\ kiv = [p \in Seeders |-> IdleKiv]
    /\ sigLog = Called("init", "OK")
    /\ InitLock
    /\ InitCycle
    /\ hasStopLossColumn = TRUE
    /\ calendarHoliday \in BOOLEAN
    /\ pending_orders = {}
    /\ open_orders = {}

NextDrift ==
    \/ BotStart(FALSE)
    \/ TickStart(NominalHealth, TRUE)
    \/ TickCheckHealth(NominalHealth, TRUE)
    \/ CheckStopLosses([t \in Tickers |-> 50000])
    \/ \E out \in [ClosingRows -> SellOutcomes] : CheckStrategyExits(out)
    \/ CheckPreClose
    \/ \E up \in BOOLEAN : ReconcileAll(up)
    \/ ScanTiers([t \in Tickers |-> "OK"])
    \/ SelectCandidates
    \/ \E outcome \in EntryOutcomes : ProcessEntry(outcome)
    \/ \E t \in HeldTickers, pos \in DriftPositions \cup {NoPosition} :
          tick.pc \in {"idle", "reconcile"} /\ BrokerChange(t, pos)
    \/ \E t \in Tickers \ HeldTickers, pos \in BrokerPositions \cup {NoPosition} :
          tick.pc \in {"idle", "reconcile"} /\ BrokerChange(t, pos)
    \/ BotExit
    \/ \E d \in CloseSteps : TickWait(d)

SpecDrift == InitDrift /\ [][NextDrift]_vars

-----------------------------------------------------------------------------
(* Cycles in nominal health whose entry orders may rest unfilled at the      *)
(* broker, which fills or cancels them at any time                           *)

InitOrders ==
    /\ now \in StartTimes
    /\ signals \in SeededTables
    /\ kiv = [p \in Seeders |-> IdleKiv]
    /\ sigLog = Called("init", "OK")
    /\ InitLock
    /\ InitCycle
    /\ hasStopLossColumn = TRUE
    /\ calendarHoliday \in BOOLEAN
    /\ pending_orders = {}
    /\ open_orders = {}

NextOrders ==
    \/ BotStart(FALSE)
    \/ \E up \in BOOLEAN : TickStart(NominalHealth, up)
    \/ \E up \in BOOLEAN : TickCheckHealth(NominalHealth, up)
    \/ CheckStopLosses([t \in Tickers |-> 50000])
    \/ \E out \in [ClosingRows -> SellOutcomes] : CheckStrategyExits(out)
    \/ CheckPreClose
    \/ \E up \in BOOLEAN : ReconcileAll(up)
    \/ ScanTiers([t \in Tickers |-> "OK"])
    \/ SelectCandidates
    \/ \E outcome \in EntryOutcomes : ProcessEntry(outcome)
    \/ \E id \in open_orders, pos \in BrokerPositions :
          OrderCloses(id, pos) \/ OrderCloses(id, broker[signals[id].ticker])
    \/ BotExit
    \/ \E d \in CloseSteps : TickWait(d)

SpecOrders == InitOrders /\ [][NextOrders]_vars

-----------------------------------------------------------------------------
(* One Sentinel object, core/market/sentinel.py, called in any order while   *)
(* the account changes; tick holds the last call: its name in trace, the     *)
(* kill switch it saw, the state check_health logged and what it returned    *)

\* what the checks of check_health may find: api_calls_this_minute of 0, 126,
\* 135, 162 and 171 out of 180 as a percentage, the ERROR and CRITICAL rows of
\* error_log dated today, the regime detect_regime reports
SentinelInputs ==
    [usage_pct : {0, 70, 75, 90, 95}, errors_today : {0, 5, 6, 7, 8, 11},
     regime : {"BULL", "BEAR", "CRASH"}]

\* the checks dict check_health builds: the inputs of the three measured
\* checks, quick_check's answer, the kill switch, and consecutive_failures as
\* read after _check_reconciliation
ChecksSeen(in, up) ==
    [in |-> in, recon_ok |-> QuickCheck(up), kill |-> sentinel.kill_switch_engaged,
     failures |-> FailuresAfter(QuickCheck(up))]

SentinelCall(op) ==
    [seen |-> <<>>] @@
    [NewTick EXCEPT !.trace = <<op>>, !.kill = sentinel.kill_switch_engaged]

\* engage_kill_switch(reason)
EngageKillSwitch ==
    /\ sentinel' = [sentinel EXCEPT !.kill_switch_engaged = TRUE]
    /\ tick' = SentinelCall("engage_kill_switch")
    /\ UNCHANGED <<now, sigVars, lockVars, positions, trade_history, broker,
                   ignore_list, hasStopLossColumn, calendarHoliday, orderVars>>

\* release_kill_switch()
ReleaseKillSwitch ==
    /\ sentinel' = [sentinel EXCEPT !.kill_switch_engaged = FALSE]
    /\ tick' = SentinelCall("release_kill_switch")
    /\ UNCHANGED <<now, sigVars, lockVars, positions, trade_history, broker,
                   ignore_list, hasStopLossColumn, calendarHoliday, orderVars>>

\* should_trade(), the whole call with the check_health it runs
ShouldTradeCall(in, up) ==
    /\ FailuresAfter(QuickCheck(up)) <= MaxChecksFailed
    /\ sentinel' = SentinelAfterCheck(QuickCheck(up))
    /\ tick' = [SentinelCall("should_trade") EXCEPT
                  !.seen = <<ChecksSeen(in, up)>>,
                  !.verdict = CheckHealth(in, up),
                  !.health_rows = <<CheckHealth(in, up)>>,
                  !.should_trade = ShouldTrade(sentinel.kill_switch_engaged,
                                               CheckHealth(in, up))]
    /\ UNCHANGED <<now, sigVars, lockVars, positions, trade_history, broker,
                   ignore_list, hasStopLossColumn, calendarHoliday, orderVars>>

\* check_health(), called on its own
CheckHealthCall(in, up) ==
    /\ FailuresAfter(QuickCheck(up)) <= MaxChecksFailed
    /\ sentinel' = SentinelAfterCheck(QuickCheck(up))
    /\ tick' = [SentinelCall("check_health") EXCEPT
                  !.seen = <<ChecksSeen(in, up)>>,
                  !.health = CheckHealth(in, up),
                  !.health_rows = <<CheckHealth(in, up)>>]
    /\ UNCHANGED <<now, sigVars, lockVars, positions, trade_history, broker,
                   ignore_list, hasStopLossColumn, calendarHoliday, orderVars>>

NextSentinel ==
    \/ EngageKillSwitch
    \/ ReleaseKillSwitch
    \/ \E in \in HealthInputs, up \in BOOLEAN : ShouldTradeCall(in, up)
    \/ \E in \in SentinelInputs, up \in BOOLEAN : CheckHealthCall(in, up)
    \/ \E t \in HeldTickers, pos \in BrokerPositions \cup {NoPosition} : BrokerChange(t, pos)

SpecSentinel == InitSignal /\ [][NextSentinel]_vars

-----------------------------------------------------------------------------
(* The signal engine driven by one caller, as build_candidates.py and the    *)
(* orchestrator use it: every call runs to its end before the next starts     *)

NextSeed ==
    \/ \E t \in SeedTickers, s \in Strategies : AddToKivCheck("s1", t, s)
    \/ \E c \in ConfidenceSet : AddToKivInsert("s1", c)
    \/ \E t \in SeedTickers, s \in Strategies, q \in QuoteSet :
          kiv["s1"].pc = "idle" /\ CheckConfirmation(t, s, q)
    \/ \E id \in DOMAIN signals : kiv["s1"].pc = "idle" /\ MarkExecuted(id)
    \/ \E id \in DOMAIN signals : kiv["s1"].pc = "idle" /\ RejectSignal(id)
    \/ \E t \in SeedTickers, s \in Strategies, r \in CooldownReasons :
          kiv["s1"].pc = "idle" /\ SetCooldown(t, s, r)
    \/ \E d \in SeedSteps :
          kiv["s1"].pc = "idle" /\ now + d <= MaxSeedNow /\ AdvanceClock(d)

SpecSeed == InitSignal /\ [][NextSeed]_vars

-----------------------------------------------------------------------------
(* The ignore list on its own, core/risk/ignore.py: add and reset called in  *)
(* any order while time passes                                               *)

IgnoreScopes == {"ALL", "RSI"}

\* IgnoreManager.add, the whole call: one row inserted or updated, committed
IgnoreAddCall(t, reason, scope) ==
    /\ ignore_list[t].retry_count < MaxRetries
    /\ ignore_list' = [ignore_list EXCEPT ![t] = IgnoreAdd(@, reason, scope)]
    /\ UNCHANGED <<now, sigVars, lockVars, positions, trade_history, broker,
                   sentinel, hasStopLossColumn, calendarHoliday, orderVars, tick>>

\* IgnoreManager.reset: DELETE FROM ignore_list WHERE ticker = ?
IgnoreReset(t) ==
    /\ ignore_list' = [ignore_list EXCEPT ![t] = NoIgnore]
    /\ UNCHANGED <<now, sigVars, lockVars, positions, trade_history, broker,
                   sentinel, hasStopLossColumn, calendarHoliday, orderVars, tick>>

NextIgnore ==
    \/ \E t \in Tickers, scope \in IgnoreScopes : IgnoreAddCall(t, "STALE_DATA", scope)
    \/ \E t \in Tickers : IgnoreReset(t)
    \/ \E d \in ClockSteps : AdvanceClock(d)

SpecIgnore == InitSignal /\ [][NextIgnore]_vars

-----------------------------------------------------------------------------
(* Claims about the signal engine, checked under SpecSignal *)

SignalStatuses == {"KIV", "CONFIRMED", "EXECUTED", "EXPIRED", "REJECTED"}

\* the rows of a pair that are KIV or CONFIRMED
ActiveRows(t, s) == {id \in RowsOf(t, s) : signals[id].status \in ActiveStatuses}

\* C2: for every (ticker, strategy) pair at most one signals row is KIV or
\* CONFIRMED, in every reachable state, also when two add_to_kiv calls for the
\* pair interleave between the duplicate check and the insert.
C2_OneActiveSignalPerPair ==
    \A t \in Tickers, s \in Strategies : Cardinality(ActiveRows(t, s)) <= 1

\* the five edges of the signal state machine
LegalEdges ==
    { <<"KIV", "CONFIRMED">>, <<"KIV", "EXPIRED">>, <<"CONFIRMED", "EXECUTED">>,
      <<"CONFIRMED", "REJECTED">>, <<"CONFIRMED", "EXPIRED">> }

\* C3: every change of a signal's status made by any operation is one of the
\* five legal edges; in particular mark_executed and reject_signal change the
\* status only of a row that is CONFIRMED.
C3_OnlyLegalEdges ==
    [][\A id \in DOMAIN signals :
          (signals[id].status \in SignalStatuses
           /\ signals'[id].status # signals[id].status)
             => <<signals[id].status, signals'[id].status>> \in LegalEdges]_vars

\* C4: once a signal is EXECUTED, EXPIRED or REJECTED no later operation
\* changes its status.
C4_TerminalImmutable ==
    [][\A id \in DOMAIN signals :
          signals[id].status \in TerminalStatuses
             => signals'[id].status = signals[id].status]_vars

-----------------------------------------------------------------------------
(* Claims about the single-instance lock, checked under SpecLock *)

\* C8: at no time are two processes both inside run_cycle, unless some acquire
\* found the lock file older than 10 minutes and removed it (stale steal).
C8_OneProcessInRunCycle == Cardinality(InRunCycle) <= 1 \/ staleRemoved

-----------------------------------------------------------------------------
(* Claims about the trading cycle, checked under SpecCycle *)

\* C1: at every moment every ticker has at most one positions row whose
\* status is OPEN or CLOSING, whatever ticks, signal_exit calls and reconciler
\* auto-heals have happened.
C1_OneActivePositionPerTicker ==
    \A t \in Tickers : Cardinality(ActivePositions(positions, t)) <= 1

\* the reconciler tried to add an OPEN row for a ticker whose local row is
\* CLOSING, and the index refused it
C1_Witness ==
    /\ tick.error = "IntegrityError"
    /\ \E id \in DOMAIN positions : positions[id].status = "CLOSING" /\ id.stamp # now

Submitted(d) == d.result \in {"FILLED", "PENDING"}

TickEntries == {tick.entries[i] : i \in 1..Len(tick.entries)}

\* C5: in a tick whose kill switch is engaged or whose health state is RED,
\* should_trade() returned False when it saw that, and no candidate reaches
\* the executor: no BUY is submitted in the tick.
C5_NoEntryWhenRedOrKilled ==
    tick.pc \notin {"idle", "should_trade"} =>
       /\ (tick.kill \/ tick.verdict = "RED") => (~tick.should_trade /\ tick.entries = <<>>)
       /\ tick.health = "RED" => tick.entries = <<>>

\* a tick halted by a RED health state while a CONFIRMED signal was waiting
C5_Witness ==
    /\ tick.pc = "done"
    /\ tick.verdict = "RED"
    /\ ~tick.kill
    /\ ~tick.should_trade
    /\ \E id \in DOMAIN signals : signals[id].status = "CONFIRMED"

Phases == {tick.trace[i] : i \in 1..Len(tick.trace)}

\* C6: every tick that ends without an exception has run the three exit
\* checks and reconcile_all, whatever the health state and the kill switch.
C6_ExitsAndReconcileAlwaysRun ==
    (tick.pc = "done" /\ tick.error = "") =>
        {"stop_loss", "strategy_exits", "pre_close", "reconcile"} \subseteq Phases

\* C7: within a tick the phases come in one order: stop-loss, strategy exits,
\* pre-close, then reconcile_all, then the scans, then the entries; an entry is
\* never handled before reconcile_all has completed in the same tick.
C7_PhaseOrder ==
    /\ \A i \in 1..Len(tick.trace) :
          /\ i <= 5 => tick.trace[i] =
                 <<"stop_loss", "strategy_exits", "pre_close", "reconcile", "scan">>[i]
          /\ i > 5 => tick.trace[i] = "entry"
    /\ Len(tick.entries) = Cardinality({i \in 1..Len(tick.trace) : tick.trace[i] = "entry"})

\* a tick that went through every phase and submitted a BUY
C7_Witness ==
    /\ Len(tick.trace) = 6
    /\ tick.trace[6] = "entry"
    /\ Submitted(tick.entries[1])

C10_NoEntryWhenInPosition ==
    \A d \in TickEntries : d.in_position => ~Submitted(d)

\* the local ledger as reconcile_all reads it: ticker -> quantity of OPEN rows
LocalLedger ==
    {<<positions[id].ticker, positions[id].quantity>> : id \in LocalOpen(positions)}

\* what the account holds: ticker -> quantity
BrokerLedger == {<<t, broker[t].quantity>> : t \in {u \in Tickers : broker[u].quantity # 0}}

\* C11: when reconcile_all ends with the all-reconciled status (OK), the
\* tickers and quantities of the local ledger equal those held at the broker,
\* also when the listing of the broker's positions failed.
C11_OkMeansLedgersEqual ==
    [][(tick.pc = "reconcile" /\ tick'.pc # "reconcile" /\ tick'.recon = "OK")
          => LocalLedger' = BrokerLedger']_vars

-----------------------------------------------------------------------------
(* Claims about the ignore list, checked under SpecIgnore *)

\* C12: for every ticker the backoff_level of its ignore_list row never
\* decreases from one add call to the next, is always within 1..4, and stops
\* at 4.
C12_BackoffMonotone ==
    [][\A t \in Tickers :
          ignore_list'[t] # NoIgnore =>
             /\ ignore_list'[t].backoff_level \in 1..4
             /\ ignore_list[t] # NoIgnore =>
                   ignore_list'[t].backoff_level >= ignore_list[t].backoff_level]_vars

\* a row that met the cap: added five times, still at level 4
C12_Witness ==
    \E t \in Tickers :
       ignore_list[t].backoff_level = 4 /\ ignore_list[t].retry_count = 5

\* this step is a check_confirmation that found a KIV row of the pair
ConfirmationChecked(t, s) ==
    /\ NewestKiv(t, s) # {}
    /\ sigLog'.op = "check_confirmation"
    /\ sigLog' # sigLog \/ signals' # signals

\* C25: check_confirmation on a KIV signal of age kiv_timeout (4 h) or more,
\* exactly 4 h included, sets it EXPIRED and answers EXPIRED whatever the
\* price; it never expires a younger KIV.
C25_ExpiresAtTimeout ==
    [][\A t \in SeedTickers, s \in Strategies :
          ConfirmationChecked(t, s) =>
             \E id \in NewestKiv(t, s) :
                IF now - signals[id].trigger_time >= KivTimeoutMin
                THEN signals'[id].status = "EXPIRED" /\ sigLog'.res = "EXPIRED"
                ELSE signals'[id].status # "EXPIRED" /\ sigLog'.res # "EXPIRED"]_vars

\* C26: when get_confirmed_signals returns, every row that was CONFIRMED with
\* a trigger_time older than confirmed_timeout is EXPIRED in the table, none of
\* them is in the list returned, and the list holds exactly the other CONFIRMED
\* rows of at least min_confidence, highest confidence first.
C26_StaleConfirmedExpired ==
    [][(sigLog'.op = "get_confirmed_signals" /\ sigLog' # sigLog) =>
          LET listed == {sigLog'.list[i] : i \in 1..Len(sigLog'.list)} IN
          /\ \A id \in ConfirmedStale(signals) :
                signals'[id].status = "EXPIRED" /\ id \notin listed
          /\ \E m \in {60, 70} :
                listed = {id \in DOMAIN signals \ ConfirmedStale(signals) :
                             /\ signals[id].status = "CONFIRMED"
                             /\ signals[id].confidence # NULL
                             /\ signals[id].confidence >= m}
          /\ \A i, j \in 1..Len(sigLog'.list) :
                i < j => signals[sigLog'.list[i]].confidence
                           >= signals[sigLog'.list[j]].confidence]_vars

-----------------------------------------------------------------------------
(* Claims about add_to_kiv called by one caller, checked under SpecSeed *)

\* the last call was an add_to_kiv that returned ADDED with the id of the
\* current hourly bucket, and this step is the next add_to_kiv for the pair
SecondAddToKiv ==
    /\ sigLog.op = "add_to_kiv" /\ sigLog.res = "ADDED"
    /\ kiv["s1"].pc = "idle"
    /\ SignalId(sigLog.list[1].ticker, sigLog.list[1].strategy, now) = sigLog.list[1]
    /\ kiv' # kiv \/ (sigLog' # sigLog /\ sigLog'.op = "add_to_kiv")

StoredExpiryAhead(t, s) ==
    \E id \in RowsOf(t, s) :
        signals[id].cooldown_until # NULL /\ signals[id].cooldown_until > now

\* a cooldown was stored for the pair and every stored expiry has passed
StoredExpiryPassed(t, s) ==
    /\ \E id \in RowsOf(t, s) : signals[id].cooldown_until # NULL
    /\ ~StoredExpiryAhead(t, s)

\* this step is add_to_kiv's first half, called while no call is in progress
AddToKivCalled ==
    /\ kiv["s1"].pc = "idle"
    /\ kiv' # kiv \/ (sigLog' # sigLog /\ sigLog'.op = "add_to_kiv")

\* C18: while a stored expiry of the pair is in the future, add_to_kiv
\* returns REJECTED (its reason is always COOLDOWN) and inserts no row; once
\* every stored expiry has passed, a seed that the duplicate check lets
\* through goes on to the INSERT, which adds one new row with status KIV and
\* returns ADDED.
C18_CooldownBlocksSeed ==
    [][\A t \in SeedTickers, s \in Strategies :
          /\ (AddToKivCalled /\ StoredExpiryAhead(t, s)) =>
                /\ sigLog' = Called("add_to_kiv", "REJECTED")
                /\ signals' = signals /\ kiv' = kiv
          /\ (/\ AddToKivCalled /\ StoredExpiryPassed(t, s)
              /\ SignalId(t, s, now) \notin DOMAIN signals
              /\ ActiveRows(t, s) = {}) =>
                /\ kiv'["s1"] = [pc |-> "insert", id |-> SignalId(t, s, now)]
                /\ signals' = signals
          /\ (kiv["s1"].pc = "insert" /\ kiv' # kiv) =>
                /\ kiv["s1"].id \notin DOMAIN signals
                /\ DOMAIN signals' = DOMAIN signals \cup {kiv["s1"].id}
                /\ signals'[kiv["s1"].id].status = "KIV"
                /\ sigLog'.res = "ADDED" /\ sigLog'.list = <<kiv["s1"].id>>]_vars

\* a 60-minute stop-loss cooldown stored in a COOLDOWN row has run out, and
\* the seed has just been added as a new KIV row
C18_Witness ==
    /\ sigLog.op = "add_to_kiv" /\ sigLog.res = "ADDED"
    /\ signals[sigLog.list[1]].status = "KIV"
    /\ signals[sigLog.list[1]].trigger_time = now
    /\ \E r \in RowsOf(sigLog.list[1].ticker, sigLog.list[1].strategy) :
          /\ signals[r].status = "COOLDOWN"
          /\ signals[r].cooldown_until = signals[r].trigger_time + DefaultCooldownMin
          /\ signals[r].cooldown_until <= now

-----------------------------------------------------------------------------
(* Claims about reconcile_all over a drifting account, checked under         *)
(* SpecDrift                                                                 *)

\* this step is reconcile_all returning its result to run_cycle
ReconcileReturns ==
    /\ tick.pc = "reconcile" /\ tick'.pc # "reconcile" /\ tick'.error = ""

\* tickers of a set of local rows
TickersOf(ids) == {positions[id].ticker : id \in ids}

\* the five buckets of reconcile_all as sets of tickers, for the account
\* listing it was given
Buckets(listed) ==
    << TickersOf(MismatchQuantity(listed)), TickersOf(MissingInAlpaca(listed)),
       MissingInLocal(listed), TickersOf(MismatchPrice(listed)),
       TickersOf(Matched(listed)) >>

\* the status named by the first non-empty bucket, in the order quantity
\* mismatch, missing at the broker, missing locally, price mismatch
FirstMatch(b) ==
    IF b[1] # {} THEN "CRITICAL"
    ELSE IF b[2] # {} THEN "CRITICAL"
    ELSE IF b[3] # {} THEN "WARNING"
    ELSE IF b[4] # {} THEN "DEGRADED"
    ELSE "OK"

\* C19: the status reconcile_all returns is the one of the first non-empty
\* bucket in the order quantity mismatch (CRITICAL), missing at the broker
\* (CRITICAL), missing locally (WARNING), price mismatch (DEGRADED), none (OK),
\* and every ticker held locally or listed by the broker is in exactly one of
\* the five buckets; the listing is the account's, or empty when it failed.
C19_FirstMatchWins ==
    [][ReconcileReturns =>
          \E up \in BOOLEAN :
             LET listed == AlpacaPositions(up)
                 b == Buckets(listed)
             IN /\ tick'.recon = FirstMatch(b)
                /\ \A t \in TickersOf(LocalOpen(positions)) \cup listed :
                      Cardinality({i \in 1..5 : t \in b[i]}) = 1]_vars

\* reconcile_all has returned CRITICAL for a ledger with a quantity mismatch
\* on one ticker (1 share locally, 2 at the broker) while the broker holds
\* another ticker the ledger does not know
C19_Witness ==
    /\ tick.pc = "done" /\ tick.recon = "CRITICAL"
    /\ \E id \in LocalOpen(positions) :
          /\ positions[id].quantity = 1
          /\ broker[positions[id].ticker].quantity = 2
    /\ \E t \in Tickers :
          /\ broker[t] # NoPosition
          /\ \A id \in DOMAIN positions : positions[id].ticker # t

\* some local OPEN row differs in quantity from the broker's position
QuantityDrift ==
    \E id \in LocalOpen(positions) :
        /\ broker[positions[id].ticker] # NoPosition
        /\ positions[id].quantity # broker[positions[id].ticker].quantity

\* C20: when reconcile_all runs over a ledger with a quantity mismatch, the
\* positions table is left as it was, one health_state row with the status
\* CRITICAL is appended, and run_cycle returns there: no entry order has been
\* submitted in the tick and none will be.
C20_QuantityDriftBlocks ==
    [][(ReconcileReturns /\ QuantityDrift) =>
          /\ positions' = positions
          /\ tick'.health_rows = Append(tick.health_rows, "CRITICAL")
          /\ tick'.pc = "done"
          /\ tick'.entries = <<>>
          /\ {tick'.trace[i] : i \in 1..Len(tick'.trace)} \cap {"scan", "entry"} = {}]_vars

\* a tick has ended at the reconciliation with 2 shares in the ledger and 1 at
\* the broker, the CRITICAL row logged after the two health checks' rows
C20_Witness ==
    /\ tick.pc = "done" /\ tick.recon = "CRITICAL"
    /\ tick.health_rows = <<"GREEN", "GREEN", "CRITICAL">>
    /\ tick.entries = <<>>
    /\ \E id \in LocalOpen(positions) :
          /\ positions[id].quantity = 2
          /\ broker[positions[id].ticker].quantity = 1

\* this step is one that runs quick_check: check_health, in should_trade or
\* on its own
QuickChecked ==
    tick.pc \in {"should_trade", "health"} /\ tick'.pc # tick.pc

\* C23: a step of reconcile_all (with its _auto_reconcile) keeps every row of
\* positions and, in every row, every column but entry_price; the rows it adds
\* are OPEN rows of strategy RECONCILED for tickers the broker holds; a step
\* that runs quick_check leaves positions as it was.
C23_ReconcileKeepsRows ==
    [][/\ (tick.pc = "reconcile" /\ tick'.pc # "reconcile") =>
             /\ DOMAIN positions \subseteq DOMAIN positions'
             /\ \A id \in DOMAIN positions :
                   positions'[id] =
                     [positions[id] EXCEPT !.entry_price = positions'[id].entry_price]
             /\ \A id \in DOMAIN positions' \ DOMAIN positions :
                   /\ positions'[id].status = "OPEN"
                   /\ positions'[id].strategy = "RECONCILED"
                   /\ broker[positions'[id].ticker] # NoPosition
                   /\ positions'[id].quantity = broker[positions'[id].ticker].quantity
       /\ QuickChecked => positions' = positions]_vars

\* reconcile_all has just returned DEGRADED: the row it found 4% away from
\* the broker's average price now carries that price, with its quantity
C23_Witness ==
    /\ tick.pc = "scan" /\ tick.recon = "DEGRADED"
    /\ \E id \in LocalOpen(positions) :
          /\ id.stamp < now
          /\ positions[id].entry_price = broker[positions[id].ticker].avg_entry_price
          /\ positions[id].quantity = broker[positions[id].ticker].quantity

\* C24: an entry order that comes back FAILED leaves its signal CONFIRMED, is
\* not submitted again in the tick, and is counted by the Sentinel: its
\* consecutive-failure counter goes up by one.
C24_FailedOrderCounts ==
    [][(/\ tick.pc = "entries"
        /\ Len(tick'.entries) = Len(tick.entries) + 1
        /\ tick'.entries[Len(tick'.entries)].result = "FAILED") =>
          /\ signals' = signals
          /\ Head(tick.candidates) \notin {tick'.candidates[i] : i \in 1..Len(tick'.candidates)}
          /\ sentinel'.consecutive_failures = sentinel.consecutive_failures + 1]_vars

-----------------------------------------------------------------------------
(* Claims about a cycle run twice, checked under SpecRerun *)

\* C14: a cycle that runs right after another one over an unchanged world
\* changes no signal, no positions, trade_history or ignore_list row, and
\* submits no order to the broker.
C14_RerunChangesNothing ==
    tick.rerun =>
       /\ signals = tick.snap[1].signals
       /\ positions = tick.snap[1].positions
       /\ trade_history = tick.snap[1].trade_history
       /\ ignore_list = tick.snap[1].ignore_list
       /\ \A d \in TickEntries : ~Submitted(d)

\* C15: when the BUY of a CONFIRMED signal comes back FILLED, the signal is
\* EXECUTED and the positions table has an OPEN row for the ticker with the
\* filled quantity, once that candidate has been handled.
C15_FilledEntryOpensPosition ==
    \A d \in TickEntries :
       d.result = "FILLED" =>
          /\ signals[d.signal_id].status = "EXECUTED"
          /\ \E id \in DOMAIN positions :
                /\ positions[id].ticker = d.ticker
                /\ positions[id].status = "OPEN"
                /\ positions[id].strategy = signals[d.signal_id].strategy
                /\ positions[id].quantity = d.shares

-----------------------------------------------------------------------------
(* Claims about the exits, checked under SpecStop *)

\* C16: in every tick, for each OPEN position whose loss at the current price
\* has reached its stop_loss, the stop-loss check submits a MARKET sell in
\* that tick.
C16_StopLossSells ==
    "stop_loss" \in Phases => tick.stop_due \subseteq tick.stop_sold

\* the (ticker, strategy) pairs for which is_on_cooldown answers True
CooldownPairs ==
    {pair \in Tickers \X {"RSI", "RECONCILED"} : IsOnCooldown(pair[1], pair[2])}

\* C17: after any exit that closes a position, the position's (ticker,
\* strategy) pair is on cooldown: is_on_cooldown is true right after the exit.
C17_ExitSetsCooldown ==
    [][\A id \in DOMAIN positions \ DOMAIN positions' :
          <<positions[id].ticker, positions[id].strategy>> \in CooldownPairs']_vars

-----------------------------------------------------------------------------
(* Claims about one Sentinel object, checked under SpecSentinel *)

HealthChecked ==
    tick' # tick /\ tick'.trace \in {<<"should_trade">>, <<"check_health">>}

\* the grading in the words of the claim: usage of 90% or more is critical,
\* usage of 75% or more is a warning, consecutive failures at their maximum
\* count as critical, and nothing else makes a state YELLOW
ClaimedCritical(c) ==
    \/ c.in.usage_pct >= 90 \/ c.in.errors_today > MaxDataErrorsPerDay
    \/ ~c.recon_ok \/ c.in.regime = "CRASH" \/ c.kill
    \/ c.failures >= MaxConsecutiveFailures

ClaimedWarning(c) ==
    \/ c.in.usage_pct >= 75 \/ c.in.errors_today * 10 > MaxDataErrorsPerDay * 7
    \/ c.in.regime = "BEAR"

\* C22: the state is RED exactly when a check is critical, counting usage of
\* 90% or more; otherwise YELLOW exactly when a check is a warning, counting
\* usage of 75% or more; otherwise GREEN.
C22_HealthState ==
    [][HealthChecked =>
          LET c == tick'.seen[1]
              state == tick'.health_rows[1]
          IN /\ state = "RED" <=> ClaimedCritical(c)
             /\ state = "YELLOW" <=> (~ClaimedCritical(c) /\ ClaimedWarning(c))
             /\ state = "GREEN" <=> (~ClaimedCritical(c) /\ ~ClaimedWarning(c))]_vars

-----------------------------------------------------------------------------
(* Claims about the exits of ExitMonitor near the close *)

\* C27: in a tick where minutes-until-close is greater than 0 and at most
\* force_close_minutes (5 included), check_pre_close submits a MARKET sell with
\* reason FORCE_CLOSE for every OPEN position; further from the close it
\* submits no forced exit
C27_ForceCloseAtFive ==
    [][(tick.pc = "pre_close" /\ tick' # tick) =>
          tick'.forced =
             IF MinutesUntilClose > 0 /\ MinutesUntilClose <= ForceCloseMinutes
             THEN LocalOpen(positions) ELSE {}]_vars

\* C28: for every position that is CLOSING at a tick, check_strategy_exits
\* submits a LIMIT sell to the broker, and the positions it removes from the
\* ledger are archived to trade_history
C28_ClosingGetsLimitSell ==
    [][(tick.pc = "strategy_exits" /\ tick' # tick) =>
          /\ tick'.limit_sells = ClosingRows
          /\ Len(trade_history') =
                Len(trade_history) + Cardinality(ClosingRows \ DOMAIN positions')]_vars

-----------------------------------------------------------------------------
(* Claims about what _auto_reconcile repairs *)

\* the rows of a positions table for one ticker
TickerRows(tbl, t) == {id \in DOMAIN tbl : tbl[id].ticker = t}

C30_PriceDriftHealed ==
    [][ReconcileReturns =>
          \A id \in LocalOpen(positions) :
             ( /\ positions[id].ticker \in tick'.listed
               /\ positions[id].quantity = broker[positions[id].ticker].quantity
               /\ MismatchQuantity(tick'.listed) = {}
               /\ MissingInAlpaca(tick'.listed) = {} )
               => positions'[id].entry_price
                    = broker[positions[id].ticker].avg_entry_price]_vars

-----------------------------------------------------------------------------
(* Claims about table health_state *)

\* C31: every check_health and every reconcile_all that returns appends exactly
\* one row to health_state, leaves the rows before it as they were, and the
\* state it writes is one of GREEN, YELLOW, RED
C31_HealthRowsThreeStates ==
    [][(QuickChecked \/ ReconcileReturns) =>
          \E state \in {"GREEN", "YELLOW", "RED"} :
             tick'.health_rows = Append(tick.health_rows, state)]_vars

-----------------------------------------------------------------------------
(* Claims about entry orders that rest at the broker *)

\* C32: an entry order the broker holds open is in the pending map of the
\* running bot from its start on (re-discovered after a restart), where
\* check_pending_orders polls it
C32_PendingOrdersWatched ==
    tick.pc # "idle" => open_orders \subseteq pending_orders

\* this step is _process_entries handing a candidate's order to the broker
EntrySubmitted(id) ==
    /\ tick.pc = "entries" /\ tick' # tick
    /\ tick'.entries[Len(tick'.entries)].signal_id = id
    /\ tick'.entries[Len(tick'.entries)].result \in {"PENDING", "FILLED"}

\* C36: no entry order is submitted for a signal whose earlier entry order is
\* still open at the broker
C36_OneOrderPerSignal ==
    [][\A id \in DOMAIN signals : EntrySubmitted(id) => id \notin open_orders]_vars

-----------------------------------------------------------------------------
(* Claims about CrossPlatformLock *)

\* one run has timed out in acquire, its lock file still open, and another
\* has acquired the lock, run its cycle and released: it has no open file
C33_Witness ==
    \E p, q \in Procs :
       /\ proc[p].pc = "done" /\ proc[p].start # NULL /\ proc[p].fp = NoInode
       /\ proc[q].pc = "done" /\ proc[q].fp # NoInode
       /\ \A i \in 1..MaxInodes : flockHolder[i] = NoProc

\* C33: every acquire comes back, with True (the process enters run_cycle
\* holding the flock of its open file) or with False (the process ends), and a
\* process that has ended holds no flock and no open lock file when it had
\* acquired the lock
C33_AcquireReturnsReleaseRuns ==
    /\ \A p \in Procs :
          proc[p].pc = "loop" ~> (proc[p].pc \in {"cycle", "done"})
    /\ \A p \in Procs :
          proc[p].pc = "cycle" ~> (proc[p].pc = "done")
    /\ [](\A p \in Procs :
            /\ proc[p].pc = "cycle" => flockHolder[proc[p].fp] = p
            /\ proc[p].pc = "done" => \A i \in 1..MaxInodes : flockHolder[i] # p)

-----------------------------------------------------------------------------
(* Claims about the ignore list, checked under SpecIgnore *)

\* this step is an IgnoreManager.add call for ticker t
IgnoreAdded(t) == ignore_list'[t].retry_count = ignore_list[t].retry_count + 1

\* C34: add on a ticker without an active entry (no row, or a row whose ttl
\* has passed) leaves backoff_level 1 and ttl = now + 1h; on a ticker with an
\* active entry it leaves backoff_level min(level + 1, 4) and ttl = now +
\* backoff_map[new level]; retry_count grows by one either way
C34_AddRestartsAfterExpiry ==
    [][\A t \in Tickers :
          IgnoreAdded(t) =>
             LET level == IF IsIgnored(t)
                          THEN Min(ignore_list[t].backoff_level + 1, 4) ELSE 1
             IN /\ ignore_list'[t].backoff_level = level
                /\ ignore_list'[t].ttl_utc = now + BackoffMap[level]]_vars

-----------------------------------------------------------------------------
(* Claims about the rows of table signals and their cooldowns *)

\* C35: every row of table signals has one of the five statuses KIV,
\* CONFIRMED, EXECUTED, EXPIRED, REJECTED, also after set_cooldown
C35_FiveStatusesOnly ==
    \A id \in DOMAIN signals : signals[id].status \in SignalStatuses

\* C37: set_cooldown never shortens protection: when a pair has an active
\* cooldown expiring at T, after a further set_cooldown call some row of the
\* pair still carries a cooldown_until of at least T
C37_CooldownNeverShortened ==
    [][(sigLog'.op = "set_cooldown" /\ now' = now) =>
          \A id \in DOMAIN signals :
              (signals[id].cooldown_until # NULL /\ signals[id].cooldown_until > now) =>
                  \E x \in DOMAIN signals' :
                      /\ signals'[x].ticker = signals[id].ticker
                      /\ signals'[x].strategy = signals[id].strategy
                      /\ signals'[x].cooldown_until >= signals[id].cooldown_until]_vars

-----------------------------------------------------------------------------
(* Claims about positions on their way out, checked under SpecStop *)

\* C38: a CLOSING position is present locally for the reconciler: while the
\* broker holds its ticker, a step of reconcile_all raises no IntegrityError
\* from inserting a second active row, does not put the ticker in
\* missing_in_local and adds no row for it, and quick_check counts the row on
\* the local side
C38_ClosingCountsAsLocal ==
    /\ [][(tick.pc = "reconcile" /\ tick'.pc # "reconcile") =>
            \A id \in DOMAIN positions :
                (positions[id].status = "CLOSING"
                    /\ broker[positions[id].ticker] # NoPosition) =>
                    /\ tick'.error # "IntegrityError"
                    /\ positions[id].ticker \in tick'.listed =>
                          /\ positions[id].ticker \notin MissingInLocal(tick'.listed)
                          /\ TickerRows(positions', positions[id].ticker)
                                = TickerRows(positions, positions[id].ticker)]_vars
    /\ []((/\ \E id \in DOMAIN positions : positions[id].status = "CLOSING"
           /\ Cardinality({id \in DOMAIN positions :
                              positions[id].status \in {"OPEN", "CLOSING"}})
                 = Cardinality(AlpacaPositions(TRUE)))
          => QuickCheck(TRUE))

\* C40: when check_pre_close runs within force_close_minutes of the close in
\* a tick whose submitted sell orders all filled (no CLOSING row with a
\* STOP_LOSS market order is left), the ledger holds no OPEN and no CLOSING
\* position once it has run
C40_NothingCarriedOvernight ==
    [][(/\ tick.pc = "pre_close" /\ tick' # tick
        /\ MinutesUntilClose > 0 /\ MinutesUntilClose <= ForceCloseMinutes
        /\ \A id \in ClosingRows : ExitReason(positions[id]) # "STOP_LOSS") =>
          \A id \in DOMAIN positions' :
              positions'[id].status \notin {"OPEN", "CLOSING"}]_vars

-----------------------------------------------------------------------------
(* Claims about the lock taken as a context manager, checked under SpecWith *)

\* C39: a process that does not hold the lock never disturbs the holder's
\* lock: as long as no stale lock was removed, the lock path names the file
\* the process in its critical section locked, that file carries its pid, and
\* no second process is in its critical section
C39_HolderUndisturbed ==
    ~staleRemoved =>
        /\ \A h \in InRunCycle : lockPath = proc[h].fp /\ lockPid[proc[h].fp] = h
        /\ Cardinality(InRunCycle) <= 1

=========================================================================
